---- MODULE Spec2Model ----
(***************************************************************************)
(* A model of the USACO standings scraper (usaco-standings-scraper) and of *)
(* the parts of the bot built on it.                                       *)
(*                                                                         *)
(* Text is a sequence of one-character strings.  A page is the element     *)
(* tree the parsers walk: a contest page is its sequence of <table>s, a    *)
(* table the sequence of its <tr>s, a row the sequences of its <th> and    *)
(* <td> cells.  Option<T> is <<>> (None) or <<v>> (Some(v)).               *)
(***************************************************************************)
EXTENDS Integers, Sequences, FiniteSets, TLC

VARIABLES
  cp_page,      \* parse_contest_page: the page handed to it
  cp_result,    \* parse_contest_page: what the call produced
  hs_page,      \* parse_history_page: the page handed to it
  hs_result,    \* parse_history_page: what the call produced
  pa_max_year,  \* parse_all: its max_year argument
  pa_pc,        \* parse_all: "loop", "join", then "ok", "err" or "panic"
  pa_season,    \* parse_all: the season the for loop is at
  pa_calls,     \* the URLs client.get was called with, in order
  pa_contests,  \* join_set_contests: the tasks spawned, in order
  pa_camps,     \* join_set_camps: the tasks spawned, in order
  pa_contests_done, \* the contest tasks that finished, in order of completion
  pa_camps_done,    \* the finalists tasks that finished, in order of completion
  pa_history,   \* the intl_history future: not started, pending or finished
  pa_result,    \* what parse_all returned
  db_data,      \* UsacoDb::from: the UsacoData handed to it
  db,           \* the UsacoDb built from it
  q_name,       \* query_name: the name asked for
  q_result,     \* query_name: the NameQueryResult returned
  ord_a,        \* the values whose derived order is computed
  ord_b,
  ord_c,
  ord_result,   \* the outcomes of cmp on them
  up_pc,        \* update: where the command is
  up_task,      \* update: the spawned scrape task
  up_rx,        \* update: the oneshot channel
  up_progress,  \* update: the Progress the HttpClient keeps
  up_shown,     \* update: the progress message as last sent or edited
  lk_pc,        \* where each command or task that uses the mutexes is
  lk_db,        \* the db mutex: its holder, then the waiters in order
  lk_stats      \* the stats mutex: its holder, then the waiters in order

vars == <<cp_page, cp_result, hs_page, hs_result, pa_max_year, pa_pc, pa_season,
          pa_calls, pa_contests, pa_camps, pa_contests_done, pa_camps_done,
          pa_history, pa_result, db_data, db, q_name, q_result,
          ord_a, ord_b, ord_c, ord_result,
          up_pc, up_task, up_rx, up_progress, up_shown, lk_pc, lk_db, lk_stats>>

db_vars == <<db_data, db, q_name, q_result>>
ord_vars == <<ord_a, ord_b, ord_c, ord_result>>
up_vars == <<up_pc, up_task, up_rx, up_progress, up_shown>>
lk_vars == <<lk_pc, lk_db, lk_stats>>
bot_vars == <<up_vars, lk_vars>>

pa_vars == <<pa_max_year, pa_pc, pa_season, pa_calls, pa_contests, pa_camps,
             pa_contests_done, pa_camps_done, pa_history, pa_result>>

cp_vars == <<cp_page, cp_result>>
hs_vars == <<hs_page, hs_result>>

----------------------------------------------------------------------------
(* Option and small helpers *)

None == <<>>
Some(v) == <<v>>
Unwrap(o) == o[1]

SeqMin(S) == CHOOSE x \in S : \A y \in S : x <= y

Range(s) == {s[i] : i \in 1..Len(s)}

----------------------------------------------------------------------------
(* Text: normalize_text, elem_text and the integer parsers *)

\* "nbsp" stands for U+00A0, which split_whitespace treats as white space.
WhitespaceChars == {" ", "nbsp"}

IsWhitespace(c) == c \in WhitespaceChars

RECURSIVE SplitWhitespace(_)
SplitWhitespace(s) ==
  IF s = <<>> THEN <<>>
  ELSE IF IsWhitespace(Head(s)) THEN SplitWhitespace(Tail(s))
  ELSE LET stops == {i \in 1..Len(s) : IsWhitespace(s[i])}
           n == IF stops = {} THEN Len(s) ELSE SeqMin(stops) - 1
       IN  <<SubSeq(s, 1, n)>> \o SplitWhitespace(SubSeq(s, n + 1, Len(s)))

RECURSIVE Join(_, _)
Join(words, sep) ==
  IF words = <<>> THEN <<>>
  ELSE IF Len(words) = 1 THEN words[1]
  ELSE words[1] \o sep \o Join(Tail(words), sep)

normalize_text(s) == Join(SplitWhitespace(s), <<" ">>)

elem_text(e) == normalize_text(e.text)

Digits == <<"0", "1", "2", "3", "4", "5", "6", "7", "8", "9">>

IsDigit(c) == \E i \in 1..Len(Digits) : Digits[i] = c

DigitVal(c) == (CHOOSE i \in 1..Len(Digits) : Digits[i] = c) - 1

U8Max == 255
U16Max == 65535

RECURSIVE ParseDigits(_, _, _)
ParseDigits(s, acc, max) ==
  IF s = <<>> THEN Some(acc)
  ELSE IF ~IsDigit(Head(s)) THEN None
  ELSE LET v == acc * 10 + DigitVal(Head(s))
       IN  IF v > max THEN None ELSE ParseDigits(Tail(s), v, max)

\* str::parse for an unsigned integer type: an optional "+", then at least
\* one digit, nothing else, and no overflow.
parse_uint(s, max) ==
  LET d == IF s # <<>> /\ Head(s) = "+" THEN Tail(s) ELSE s
  IN  IF d = <<>> THEN None ELSE ParseDigits(d, 0, max)

----------------------------------------------------------------------------
(* Data model *)

Months == <<"January", "February", "March", "Open", "November", "December">>
Divisions == <<"Bronze", "Silver", "Gold", "Platinum">>

Observer == [tag |-> "Observer", year |-> 0]
HighSchool(y) == [tag |-> "HighSchool", year |-> y]

MonthYear(y, m) == [year |-> y, month |-> m]

----------------------------------------------------------------------------
(* parse_contest_page *)

YearText == <<"Y", "e", "a", "r">>

\* IsObserverTable reading the first header cell instead of the second.
IsObserverTableFirstCell(headers_text) == headers_text[1] # YearText

\* observers have their graduation year omitted: headers_text[1] != "Year"
\* (the second header cell; sequences here count from 1).
IsObserverTable(headers_text) == headers_text[2] # YearText

\* The header closure: Err when the table has no row, a panic when the
\* first row has fewer than two <th> (headers_text[1] is indexed unchecked),
\* Err when a problem header has no colspan that parses as u8.
ParseHeader(table) ==
  IF table = <<>>
  THEN [kind |-> "err", observers |-> FALSE, col_widths |-> <<>>]
  ELSE LET headers == table[1].th
           headers_text == [i \in 1..Len(headers) |-> elem_text(headers[i])]
       IN  IF Len(headers_text) < 2
           THEN [kind |-> "panic", observers |-> FALSE, col_widths |-> <<>>]
           ELSE LET observers == IsObserverTable(headers_text)
                    skip == IF observers THEN 3 ELSE 4
                    n == IF Len(headers) > skip THEN (Len(headers) - skip) \div 2 ELSE 0
                    widths == [k \in 1..n |->
                                LET c == headers[skip + 2 * k]
                                IN  IF c.colspan = None THEN None
                                    ELSE parse_uint(Unwrap(c.colspan), U8Max)]
                IN  IF \E k \in 1..n : widths[k] = None
                    THEN [kind |-> "err", observers |-> observers, col_widths |-> <<>>]
                    ELSE [kind |-> "ok", observers |-> observers,
                          col_widths |-> [k \in 1..n |-> Unwrap(widths[k])]]

\* TestcaseOf without the letter of the old result pages.
TestcaseOfNew(s) ==
  CASE s = <<"*">> -> Some("Correct")
    [] s = <<"x">> -> Some("WrongAnswer")
    [] s = <<"t">> -> Some("Timeout")
    [] s = <<"c">> -> Some("CompilationError")
    [] s = <<"!">> -> Some("RunTimeError")
    [] s = <<"e">> -> Some("Empty")
    [] OTHER -> None

TestcaseOf(s) ==
  CASE s = <<"*">> -> Some("Correct")
    [] s = <<"x">> -> Some("WrongAnswer")
    [] s = <<"t">> -> Some("Timeout")
    [] s = <<"c">> -> Some("CompilationError")
    [] s = <<"s">> -> Some("RunTimeError")
    [] s = <<"!">> -> Some("RunTimeError")
    [] s = <<"e">> -> Some("Empty")
    [] OTHER -> None

\* The loop over col_widths of one row: cells are the cells not yet consumed.
RECURSIVE ParseProblems(_, _)
ParseProblems(cells, widths) ==
  IF widths = <<>> THEN Some(<<>>)
  ELSE LET w == Head(widths)
       IN  IF Len(cells) < 1 + w THEN None
           ELSE LET taken == SubSeq(cells, 2, 1 + w)
                    problem_res ==
                      IF taken # <<>> /\ taken[Len(taken)] = <<>>
                      THEN SubSeq(taken, 1, Len(taken) - 1)
                      ELSE taken
                    mapped == [i \in 1..Len(problem_res) |-> TestcaseOf(problem_res[i])]
                    rest == ParseProblems(SubSeq(cells, 2 + w, Len(cells)), Tail(widths))
                IN  IF \A i \in 1..Len(problem_res) : problem_res[i] = <<>>
                    THEN IF rest = None THEN None
                         ELSE Some(<<None>> \o Unwrap(rest))
                    ELSE IF \E i \in 1..Len(mapped) : mapped[i] = None THEN None
                    ELSE IF rest = None THEN None
                    ELSE Some(<<Some([i \in 1..Len(mapped) |-> Unwrap(mapped[i])])>>
                              \o Unwrap(rest))

\* The row closure: Some(participant), or None when the row is skipped.
ParseRow(observers, col_widths, row) ==
  LET cells == [i \in 1..Len(row.td) |-> elem_text(row.td[i])]
      fixed == IF observers THEN 3 ELSE 4
  IN  IF Len(cells) < fixed THEN None
      ELSE LET year == IF observers THEN Some(0) ELSE parse_uint(cells[2], U16Max)
               score == parse_uint(cells[fixed], U16Max)
               subs == ParseProblems(SubSeq(cells, fixed + 1, Len(cells)), col_widths)
           IN  IF year = None \/ score = None \/ subs = None THEN None
               ELSE Some([country |-> cells[1],
                          graduation |-> IF observers THEN Observer
                                         ELSE HighSchool(Unwrap(year)),
                          name |-> cells[fixed - 1],
                          score |-> Unwrap(score),
                          submission_results |-> Unwrap(subs)])

\* ParseRows giving up on the table at the first row that fails.
RECURSIVE ParseRowsUntilError(_, _, _)
ParseRowsUntilError(observers, col_widths, rows) ==
  IF rows = <<>> THEN <<>>
  ELSE IF ParseRow(observers, col_widths, Head(rows)) = None THEN <<>>
  ELSE <<Unwrap(ParseRow(observers, col_widths, Head(rows)))>>
       \o ParseRowsUntilError(observers, col_widths, Tail(rows))

RECURSIVE ParseRows(_, _, _)
ParseRows(observers, col_widths, rows) ==
  IF rows = <<>> THEN <<>>
  ELSE LET r == ParseRow(observers, col_widths, Head(rows))
       IN  (IF r = None THEN <<>> ELSE <<Unwrap(r)>>)
           \o ParseRows(observers, col_widths, Tail(rows))

\* The loop over the tables: the participants pushed, or the panic.
RECURSIVE ParseTables(_)
ParseTables(tables) ==
  IF tables = <<>> THEN [panic |-> FALSE, participants |-> <<>>]
  ELSE LET h == ParseHeader(Head(tables))
       IN  IF h.kind = "panic" THEN [panic |-> TRUE, participants |-> <<>>]
           ELSE LET mine == IF h.kind = "err" THEN <<>>
                            ELSE ParseRows(h.observers, h.col_widths, Tail(Head(tables)))
                    rest == ParseTables(Tail(tables))
                IN  IF rest.panic THEN rest
                    ELSE [panic |-> FALSE, participants |-> mine \o rest.participants]

\* Retain that keeps every entry.
RetainAll(ps, vis) == ps

\* participants.retain(|c| vis.insert(c.clone()))
RECURSIVE Retain(_, _)
Retain(ps, vis) ==
  IF ps = <<>> THEN <<>>
  ELSE IF Head(ps) \in vis THEN Retain(Tail(ps), vis)
  ELSE <<Head(ps)>> \o Retain(Tail(ps), vis \cup {Head(ps)})

parse_contest_page(time, division, html) ==
  LET r == ParseTables(html)
  IN  IF r.panic THEN [kind |-> "panic"]
      ELSE [kind |-> "ok",
            value |-> [time |-> time, division |-> division,
                       participants |-> Retain(r.participants, {})]]

----------------------------------------------------------------------------
(* Strings as Rust sees them: trimming, searching, and slicing by byte *)

\* The characters that take two bytes in UTF-8 ("eacute" stands for U+00E9).
MultiByteChars == {"nbsp", "eacute"}

ByteLen(c) == IF c \in MultiByteChars THEN 2 ELSE 1

RECURSIVE Bytes(_)
Bytes(s) == IF s = <<>> THEN 0 ELSE ByteLen(Head(s)) + Bytes(Tail(s))

\* &s[..n] and &s[n..]: None stands for the panic of a slice whose index is
\* past the end or inside a character.
SliceToByte(s, n) ==
  LET ks == {k \in 0..Len(s) : Bytes(SubSeq(s, 1, k)) = n}
  IN  IF ks = {} THEN None ELSE Some(SubSeq(s, 1, SeqMin(ks)))

SliceFromByte(s, n) ==
  LET ks == {k \in 0..Len(s) : Bytes(SubSeq(s, 1, k)) = n}
  IN  IF ks = {} THEN None ELSE Some(SubSeq(s, SeqMin(ks) + 1, Len(s)))

RECURSIVE TrimStart(_)
TrimStart(s) ==
  IF s # <<>> /\ IsWhitespace(Head(s)) THEN TrimStart(Tail(s)) ELSE s

RECURSIVE TrimEnd(_)
TrimEnd(s) ==
  IF s # <<>> /\ IsWhitespace(s[Len(s)]) THEN TrimEnd(SubSeq(s, 1, Len(s) - 1)) ELSE s

Trim(s) == TrimEnd(TrimStart(s))

StartsWith(s, p) == Len(s) >= Len(p) /\ SubSeq(s, 1, Len(p)) = p

Contains(s, p) ==
  \E i \in 1..(Len(s) - Len(p) + 1) : SubSeq(s, i, i + Len(p) - 1) = p

\* s.rfind(c): the number of characters before the last c.
RFind(s, c) ==
  LET is == {i \in 1..Len(s) : s[i] = c}
  IN  IF is = {} THEN None ELSE Some((CHOOSE i \in is : \A j \in is : j <= i) - 1)

----------------------------------------------------------------------------
(* parse_history_page *)
(* The page is the sequence of its ".content > div" sections; a section    *)
(* has the text of its first <h2> (or none) and its year blocks; a year    *)
(* block is the sequence of its child nodes: text nodes, and elements with *)
(* their own text and their src attribute.                                 *)

TxIOI == <<"I", "O", "I">>
TxEGOI == <<"E", "G", "O", "I">>
VisaMarker == <<"(", "*", ")">>
PlaceMarker == <<"p", "l", "a", "c", "e", ")">>

MedalOf(src) ==
  CASE src = "current/images/medal_none.png" -> Some("NoMedal")
    [] src = "current/images/medal_bronze.png" -> Some("Bronze")
    [] src = "current/images/medal_silver.png" -> Some("Silver")
    [] src = "current/images/medal_gold.png" -> Some("Gold")
    [] OTHER -> None

RECURSIVE ConcatText(_)
ConcatText(nodes) ==
  IF nodes = <<>> THEN <<>> ELSE Head(nodes).text \o ConcatText(Tail(nodes))

\* The name of a visa-issue entry: name[4..].trim(); None is the panic.
VisaName(name) ==
  LET rest == SliceFromByte(name, 4)
  IN  IF rest = None THEN None ELSE Some(Trim(Unwrap(rest)))

\* ParseMedalEntry storing the text as it is, placement annotation included.
ParseMedalEntryKeepingPlace(year, children, i, name) ==
  IF i = 1 THEN None
  ELSE LET medal == children[i - 1]
       IN  IF medal.kind # "element" THEN None
           ELSE IF medal.src = None THEN None
           ELSE IF MedalOf(Unwrap(medal.src)) = None THEN None
           ELSE Some([year |-> year, result |-> Unwrap(MedalOf(Unwrap(medal.src))),
                      name |-> name])

\* The medal closure for the entry at children[i]: Some(participant), or
\* None when it returns Err.
ParseMedalEntry(year, children, i, name) ==
  IF i = 1 THEN None
  ELSE LET medal == children[i - 1]
       IN  IF medal.kind # "element" THEN None
           ELSE IF medal.src = None THEN None
           ELSE LET result == MedalOf(Unwrap(medal.src))
                    cut == RFind(name, "(")
                IN  IF result = None THEN None
                    ELSE IF Contains(name, PlaceMarker)
                    THEN IF cut = None THEN None
                         ELSE Some([year |-> year, result |-> Unwrap(result),
                                    name |-> Trim(SubSeq(name, 1, Unwrap(cut)))])
                    ELSE Some([year |-> year, result |-> Unwrap(result), name |-> name])

\* The loop over year_div.children(), from child i on.
RECURSIVE ParseContestants(_, _, _)
ParseContestants(year, children, i) ==
  IF i > Len(children) THEN [panic |-> FALSE, results |-> <<>>]
  ELSE LET rest == ParseContestants(year, children, i + 1)
           name == Trim(children[i].text)
       IN  IF children[i].kind # "text" THEN rest
           ELSE IF \A k \in 1..Len(name) : IsWhitespace(name[k]) THEN rest
           ELSE IF StartsWith(name, VisaMarker)
           THEN LET visa == VisaName(name)
                IN  IF visa = None THEN [panic |-> TRUE, results |-> <<>>]
                    ELSE IF rest.panic THEN rest
                    ELSE [panic |-> FALSE,
                          results |-> <<[year |-> year, result |-> "VisaIssue",
                                         name |-> Unwrap(visa)]>> \o rest.results]
           ELSE LET res == ParseMedalEntry(year, children, i, name)
                IN  IF rest.panic THEN rest
                    ELSE [panic |-> FALSE,
                          results |-> (IF res = None THEN <<>> ELSE <<Unwrap(res)>>)
                                      \o rest.results]

\* One year block: elem_text(year_div)[0..4].parse(), then its contestants.
ParseYearDiv(year_div) ==
  LET first4 == SliceToByte(normalize_text(ConcatText(year_div)), 4)
      year == IF first4 = None THEN None ELSE parse_uint(Unwrap(first4), U16Max)
  IN  IF first4 = None THEN [panic |-> TRUE, results |-> <<>>]
      ELSE IF year = None THEN [panic |-> FALSE, results |-> <<>>]
      ELSE ParseContestants(Unwrap(year), year_div, 1)

RECURSIVE ParseYearDivs(_)
ParseYearDivs(divs) ==
  IF divs = <<>> THEN [panic |-> FALSE, results |-> <<>>]
  ELSE LET mine == ParseYearDiv(Head(divs))
       IN  IF mine.panic THEN mine
           ELSE LET rest == ParseYearDivs(Tail(divs))
                IN  IF rest.panic THEN rest
                    ELSE [panic |-> FALSE, results |-> mine.results \o rest.results]

\* ParseSections adding the entries of a section to the list of its
\* competition instead of assigning them.
RECURSIVE ParseSectionsAppending(_, _, _)
ParseSectionsAppending(sections, ioi, egoi) ==
  IF sections = <<>> THEN [panic |-> FALSE, ioi |-> ioi, egoi |-> egoi]
  ELSE LET outer == Head(sections)
           is_ioi == outer.heading # None /\ Contains(Unwrap(outer.heading), TxIOI)
           is_egoi == outer.heading # None /\ Contains(Unwrap(outer.heading), TxEGOI)
       IN  IF outer.heading = None \/ (is_ioi /\ is_egoi) \/ (~is_ioi /\ ~is_egoi)
           THEN ParseSectionsAppending(Tail(sections), ioi, egoi)
           ELSE LET r == ParseYearDivs(outer.years)
                IN  IF r.panic THEN [panic |-> TRUE, ioi |-> <<>>, egoi |-> <<>>]
                    ELSE IF is_ioi
                    THEN ParseSectionsAppending(Tail(sections), ioi \o r.results, egoi)
                    ELSE ParseSectionsAppending(Tail(sections), ioi, egoi \o r.results)

\* The loop over the sections, with the lists assigned so far.
RECURSIVE ParseSections(_, _, _)
ParseSections(sections, ioi, egoi) ==
  IF sections = <<>> THEN [panic |-> FALSE, ioi |-> ioi, egoi |-> egoi]
  ELSE LET outer == Head(sections)
           is_ioi == outer.heading # None /\ Contains(Unwrap(outer.heading), TxIOI)
           is_egoi == outer.heading # None /\ Contains(Unwrap(outer.heading), TxEGOI)
       IN  IF outer.heading = None \/ (is_ioi /\ is_egoi) \/ (~is_ioi /\ ~is_egoi)
           THEN ParseSections(Tail(sections), ioi, egoi)
           ELSE LET r == ParseYearDivs(outer.years)
                IN  IF r.panic THEN [panic |-> TRUE, ioi |-> <<>>, egoi |-> <<>>]
                    ELSE IF is_ioi THEN ParseSections(Tail(sections), r.results, egoi)
                    ELSE ParseSections(Tail(sections), ioi, r.results)

\* SortByYear putting an entry before the entries of its year.
RECURSIVE SortByYearUnstable(_)
SortByYearUnstable(s) ==
  IF s = <<>> THEN <<>>
  ELSE LET sorted == SortByYearUnstable(SubSeq(s, 1, Len(s) - 1))
           x == s[Len(s)]
           k == Cardinality({i \in 1..Len(sorted) : sorted[i].year < x.year})
       IN  SubSeq(sorted, 1, k) \o <<x>> \o SubSeq(sorted, k + 1, Len(sorted))

\* sort_by_key(|c| c.year): a stable sort, here by insertion.
RECURSIVE SortByYear(_)
SortByYear(s) ==
  IF s = <<>> THEN <<>>
  ELSE LET sorted == SortByYear(SubSeq(s, 1, Len(s) - 1))
           x == s[Len(s)]
           k == Cardinality({i \in 1..Len(sorted) : sorted[i].year <= x.year})
       IN  SubSeq(sorted, 1, k) \o <<x>> \o SubSeq(sorted, k + 1, Len(sorted))

parse_history_page(html) ==
  LET r == ParseSections(html, <<>>, <<>>)
  IN  IF r.panic THEN [kind |-> "panic"]
      ELSE [kind |-> "ok",
            value |-> [ioi |-> SortByYear(r.ioi), egoi |-> SortByYear(r.egoi)]]

----------------------------------------------------------------------------
(* parse_camp_page *)

\* The row closure: Some(participant), or None when the row is skipped.
ParseCampRow(table_ind, row) ==
  LET cells == [i \in 1..Len(row.td) |-> elem_text(row.td[i])]
  IN  IF Len(cells) # 4 THEN None
      ELSE LET graduation_year == parse_uint(cells[1], U16Max)
           IN  IF graduation_year = None THEN None
               ELSE Some([graduation_year |-> Unwrap(graduation_year),
                          name |-> cells[2], school |-> cells[3],
                          state |-> cells[4], is_egoi |-> table_ind > 0])

RECURSIVE ParseCampRows(_, _)
ParseCampRows(table_ind, rows) ==
  IF rows = <<>> THEN <<>>
  ELSE LET r == ParseCampRow(table_ind, Head(rows))
       IN  (IF r = None THEN <<>> ELSE <<Unwrap(r)>>)
           \o ParseCampRows(table_ind, Tail(rows))

\* ParseCampTables taking the participants of every table of the page.
RECURSIVE ParseCampTablesAll(_, _)
ParseCampTablesAll(tables, table_ind) ==
  IF tables = <<>> THEN <<>>
  ELSE (IF Head(tables) = <<>> THEN <<>>
        ELSE ParseCampRows(table_ind, Tail(Head(tables))))
       \o ParseCampTablesAll(Tail(tables), table_ind + 1)

\* The loop over the tables, from the table of index table_ind (from 0) on.
RECURSIVE ParseCampTables(_, _)
ParseCampTables(tables, table_ind) ==
  IF tables = <<>> THEN <<>>
  ELSE (IF table_ind >= 2 \/ Head(tables) = <<>> THEN <<>>
        ELSE ParseCampRows(table_ind, Tail(Head(tables))))
       \o ParseCampTables(Tail(tables), table_ind + 1)

parse_camp_page(camp_year, html) ==
  [year |-> camp_year, participants |-> ParseCampTables(html, 0)]

----------------------------------------------------------------------------
(* parse_all: the URL enumeration *)

FirstSeason == 2012
LastSixContestSeason == 2014
LastThreeDivisionSeason == 2015

MonthUrlName(m) ==
  CASE m = "January" -> "jan" [] m = "February" -> "feb" [] m = "March" -> "mar"
    [] m = "Open" -> "open" [] m = "November" -> "nov" [] m = "December" -> "dec"

DivisionUrlName(d) ==
  CASE d = "Bronze" -> "bronze" [] d = "Silver" -> "silver"
    [] d = "Gold" -> "gold" [] d = "Platinum" -> "platinum"

\* The URLs, by the parts format! puts into them.
ContestUrl(month, year, division) ==
  [page |-> "results", month |-> MonthUrlName(month), yy |-> year % 100,
   division |-> DivisionUrlName(division)]
FinalistsUrl(season) ==
  [page |-> "finalists", month |-> "", yy |-> season % 100, division |-> ""]
HistoryUrl == [page |-> "history", month |-> "", yy |-> 0, division |-> ""]

SeasonMonths(season) ==
  IF season <= LastSixContestSeason
  THEN <<"November", "December", "January", "February", "March", "Open">>
  ELSE <<"December", "January", "February", "Open">>

\* SeasonDivisions with Platinum starting one season late.
SeasonDivisionsLate(season) ==
  IF season <= LastThreeDivisionSeason + 1
  THEN <<"Bronze", "Silver", "Gold">>
  ELSE <<"Bronze", "Silver", "Gold", "Platinum">>

SeasonDivisions(season) ==
  IF season <= LastThreeDivisionSeason
  THEN <<"Bronze", "Silver", "Gold">>
  ELSE <<"Bronze", "Silver", "Gold", "Platinum">>

\* ContestYear without the step back for November and December.
ContestYearOfSeason(season, month) == season

ContestYear(season, month) ==
  IF month \in {"November", "December"} THEN season - 1 ELSE season

\* The contest tasks one iteration of the season loop spawns, in order.
SeasonContestTasks(season) ==
  LET months == SeasonMonths(season)
      divisions == SeasonDivisions(season)
      nd == Len(divisions)
  IN  [k \in 1..(Len(months) * nd) |->
        LET month == months[((k - 1) \div nd) + 1]
            division == divisions[((k - 1) % nd) + 1]
            year == ContestYear(season, month)
        IN  [url |-> ContestUrl(month, year, division),
             time |-> MonthYear(year, month), division |-> division]]

SeasonCampTask(season) == [url |-> FinalistsUrl(season), season |-> season]

Urls(tasks) == [i \in 1..Len(tasks) |-> tasks[i].url]

----------------------------------------------------------------------------
(* parse_all: the fetches and the join *)

TransportError == [kind |-> "error"]
Http(status, body) == [kind |-> "http", status |-> status, body |-> body]

\* StatusCode::is_success
IsSuccess(code) == 200 <= code /\ code < 300

\* GetUrl taking only 404 for an absent page.
GetUrlOnly404(resp) ==
  IF resp.kind = "error" THEN [kind |-> "Err", html |-> None]
  ELSE IF resp.status = 404 THEN [kind |-> "Ok", html |-> None]
  ELSE [kind |-> "Ok", html |-> Some(resp.body)]

\* The future get_url returns: Err, Ok(None) or Ok(Some(html)).
GetUrl(resp) ==
  IF resp.kind = "error" THEN [kind |-> "Err", html |-> None]
  ELSE IF ~IsSuccess(resp.status) THEN [kind |-> "Ok", html |-> None]
  ELSE [kind |-> "Ok", html |-> Some(resp.body)]

\* What the parser's outcome makes of the task or future that ran it: its
\* panic, or Ok(Some(value)).
PageOutput(page) ==
  IF page.kind = "panic" THEN [kind |-> "Panic", value |-> None]
  ELSE [kind |-> "Ok", value |-> Some(page.value)]

\* req.await.map(|res| res.map(|html| parse(html))), r being what req.await
\* returned and page what the parser makes of the html.
TaskOutput(r, page) ==
  IF r.kind = "Err" THEN [kind |-> "Err", value |-> None]
  ELSE IF r.html = None THEN [kind |-> "Ok", value |-> None]
  ELSE PageOutput(page)

\* res.unwrap_or_default(), and the html a task parses.
Html(r) == IF r.html = None THEN <<>> ELSE Unwrap(r.html)

\* What a task spawned on join_set_contests ends with.
ContestTaskOutput(task, r) ==
  TaskOutput(r, parse_contest_page(task.time, task.division, Html(r)))

\* What a task spawned on join_set_camps ends with.
CampTaskOutput(task, r) ==
  TaskOutput(r, [kind |-> "ok", value |-> parse_camp_page(task.season, Html(r))])

\* What the intl_history future ends with; a page that could not be loaded
\* is parsed as the empty string.
HistoryOutput(r) ==
  IF r.kind = "Err" THEN [kind |-> "Err", value |-> None]
  ELSE PageOutput(parse_history_page(Html(r)))

\* into_iter().filter_map(|x| x.transpose()).collect::<Result<Vec<_>, _>>():
\* the values of the Ok(Some(_)), or the first Err.
RECURSIVE Collect(_)
Collect(done) ==
  IF done = <<>> THEN [kind |-> "Ok", values |-> <<>>]
  ELSE LET x == Head(done)
       IN  IF x.out.kind = "Err" THEN [kind |-> "Err", url |-> x.url]
           ELSE LET rest == Collect(Tail(done))
                IN  IF rest.kind = "Err" THEN rest
                    ELSE [kind |-> "Ok",
                          values |-> (IF x.out.value = None THEN <<>>
                                      ELSE <<Unwrap(x.out.value)>>) \o rest.values]

Index(seq, x) == CHOOSE i \in 1..Len(seq) : seq[i] = x

\* The derived orders of Month, MonthYear and Division, and the sort keys.
MonthYearLess(a, b) ==
  \/ a.year < b.year
  \/ a.year = b.year /\ Index(Months, a.month) < Index(Months, b.month)

ContestKeyLessEq(a, b) ==
  \/ MonthYearLess(a.time, b.time)
  \/ a.time = b.time /\ Index(Divisions, a.division) <= Index(Divisions, b.division)

CampKeyLessEq(a, b) == a.year <= b.year

\* x put after the entries of the sorted sequence that are LessEq it.
InsertBy(sorted, x, LessEq(_, _)) ==
  LET k == Cardinality({i \in 1..Len(sorted) : LessEq(sorted[i], x)})
  IN  SubSeq(sorted, 1, k) \o <<x>> \o SubSeq(sorted, k + 1, Len(sorted))

\* SortContests leaving the vector as join_all returned it.
SortContestsNot(contests) == contests

\* contests.sort_unstable_by_key(|c| (c.time, c.division)); the keys of the
\* contests are distinct, so the order the sort leaves is the one an
\* insertion sort leaves.
RECURSIVE SortContests(_)
SortContests(contests) ==
  IF contests = <<>> THEN <<>>
  ELSE InsertBy(SortContests(SubSeq(contests, 1, Len(contests) - 1)),
                contests[Len(contests)], ContestKeyLessEq)

\* camps.sort_unstable_by_key(|c| c.year), the years being distinct.
RECURSIVE SortCamps(_)
SortCamps(camps) ==
  IF camps = <<>> THEN <<>>
  ELSE InsertBy(SortCamps(SubSeq(camps, 1, Len(camps) - 1)),
                camps[Len(camps)], CampKeyLessEq)

\* The code after tokio::join!: the three "?" and the two sorts.
AfterJoin(history, contests_done, camps_done) ==
  LET contests == Collect(contests_done)
      camps == Collect(camps_done)
  IN  IF history.out.kind = "Err" THEN [kind |-> "Err", url |-> HistoryUrl]
      ELSE IF contests.kind = "Err" THEN contests
      ELSE IF camps.kind = "Err" THEN camps
      ELSE [kind |-> "Ok",
            data |-> [contests |-> SortContests(contests.values),
                      camps |-> SortCamps(camps.values),
                      intl_history |-> Unwrap(history.out.value)]]

----------------------------------------------------------------------------
(* The contest pages parse_contest_page is given *)

T(s) == [text |-> s]
Th(s, c) == [text |-> s, colspan |-> c]

TxCountry == <<"C", "o", "u", "n", "t", "r", "y">>
TxName == <<"N", "a", "m", "e">>
TxScore == <<"S", "c", "o", "r", "e">>
TxUSA == <<"U", "S", "A">>
TxAl == <<"A", "l">>
Tx2024 == <<"2", "0", "2", "4">>
Tx100 == <<"1", "0", "0">>

HdrRow(ths) == [th |-> ths, td |-> <<>>]
DataRow(cells) == [th |-> <<>>, td |-> [i \in 1..Len(cells) |-> T(cells[i])]]

\* With a Year column (its text padded, as elem_text normalises it), one
\* problem of colspan 2.
HdrYear ==
  HdrRow(<<Th(TxCountry, None), Th(<<" ">> \o YearText \o <<"nbsp">>, None),
           Th(TxName, None), Th(TxScore, None), Th(<<>>, None),
           Th(<<"1">>, Some(<<"2">>))>>)
\* With a Year column and no problem column.
HdrYearBare ==
  HdrRow(<<Th(TxCountry, None), Th(YearText, None), Th(TxName, None),
           Th(TxScore, None)>>)
\* Observers: no Year column, one problem of colspan 2.
HdrObs ==
  HdrRow(<<Th(TxCountry, None), Th(TxName, None), Th(TxScore, None),
           Th(<<>>, None), Th(<<"1">>, Some(<<"2">>))>>)
\* Observers, two problems of colspan 1 and 0.
HdrObs2 ==
  HdrRow(<<Th(TxCountry, None), Th(TxName, None), Th(TxScore, None),
           Th(<<>>, None), Th(<<"1">>, Some(<<"1">>)),
           Th(<<>>, None), Th(<<"2">>, Some(<<"0">>))>>)
\* A single header cell, and a first row without any <th>.
HdrShort == HdrRow(<<Th(TxCountry, None)>>)
HdrNoTh == [th |-> <<>>, td |-> <<T(TxCountry), T(TxName)>>]
\* A problem header without colspan, and one whose colspan overflows u8.
HdrNoColspan ==
  HdrRow(<<Th(TxCountry, None), Th(TxName, None), Th(TxScore, None),
           Th(<<>>, None), Th(<<"1">>, None)>>)
HdrBigColspan ==
  HdrRow(<<Th(TxCountry, None), Th(YearText, None), Th(TxName, None),
           Th(TxScore, None), Th(<<>>, None),
           Th(<<"1">>, Some(<<"2", "5", "6">>))>>)

\* A problem header whose colspan is not a number.
HdrBadColspan ==
  HdrRow(<<Th(TxCountry, None), Th(TxName, None), Th(TxScore, None),
           Th(<<>>, None), Th(<<"1">>, Some(<<"x">>))>>)

HeaderRows ==
  {HdrYear, HdrYearBare, HdrObs, HdrObs2, HdrShort, HdrNoTh, HdrNoColspan,
   HdrBigColspan, HdrBadColspan}

DataRows ==
  { DataRow(<<TxUSA, TxAl, Tx100, <<>>, <<"*">>, <<>> >>),
    DataRow(<<TxUSA, TxAl \o <<" ", " ">> \o TxAl, Tx100, <<>>, <<"x">>, <<"!">> >>),
    DataRow(<<TxUSA, Tx2024, TxAl, Tx100, <<>>, <<"*">>, <<"t">> >>),
    DataRow(<<TxUSA, TxAl, Tx100, <<>>, <<"c">>, <<"s">> >>),
    DataRow(<<TxUSA, TxAl, <<"7">>, <<>>, <<"e">>, <<>> >>),
    DataRow(<<TxUSA, Tx2024, <<"7">>, <<"9">>, <<>>, <<>>, <<>> >>),
    DataRow(<<TxUSA, TxAl, Tx100, <<>>, <<>>, <<"*">> >>),
    DataRow(<<TxUSA, TxAl, Tx100, <<>>, <<"?">>, <<>> >>),
    DataRow(<<TxUSA>>) }

MaxTables == 2
MaxRows == 2

RowsOnPage(page) ==
  LET n(t) == IF page[t] = <<>> THEN 0 ELSE Len(page[t]) - 1
      RECURSIVE sum(_)
      sum(t) == IF t = 0 THEN 0 ELSE n(t) + sum(t - 1)
  IN  sum(Len(page))

----------------------------------------------------------------------------
(* Specification of parse_contest_page: a page is put together table by *)
(* table and row by row, then parsed.                                     *)

CpIdle == [kind |-> "none"]
HsIdle == [kind |-> "none"]
PaIdle == [kind |-> "none"]

\* parse_all not called.
PaOff ==
  /\ pa_max_year = 0
  /\ pa_pc = "off"
  /\ pa_season = 0
  /\ pa_calls = <<>>
  /\ pa_contests = <<>>
  /\ pa_camps = <<>>
  /\ pa_contests_done = <<>>
  /\ pa_camps_done = <<>>
  /\ pa_history = [state |-> "idle"]
  /\ pa_result = PaIdle

CpOff == cp_page = <<>> /\ cp_result = CpIdle
HsOff == hs_page = <<>> /\ hs_result = HsIdle

\* UsacoDb not built, nothing compared.
DbIdle == [kind |-> "none"]
DbOff == db_data = DbIdle /\ db = DbIdle /\ q_name = <<>> /\ q_result = DbIdle
OrdOff == ord_a = DbIdle /\ ord_b = DbIdle /\ ord_c = DbIdle /\ ord_result = DbIdle

\* The update command not invoked, no command or task at the mutexes.
UpOff ==
  /\ up_pc = "off"
  /\ up_task = "none"
  /\ up_rx = "none"
  /\ up_progress = DbIdle
  /\ up_shown = DbIdle
LkOff == lk_pc = DbIdle /\ lk_db = <<>> /\ lk_stats = <<>>
BotOff == UpOff /\ LkOff

CpInit == CpOff /\ HsOff /\ PaOff /\ DbOff /\ OrdOff /\ BotOff

\* The page gets one more <table>: with a first row, or without any row.
CpAddTable ==
  /\ cp_result = CpIdle
  /\ Len(cp_page) < MaxTables
  /\ \E t \in {<<>>} \cup {<<h>> : h \in HeaderRows} :
       cp_page' = Append(cp_page, t)
  /\ UNCHANGED <<cp_result, hs_vars, pa_vars, db_vars, ord_vars, bot_vars>>

\* The last table of the page gets one more <tr>.
CpAddRow ==
  /\ cp_result = CpIdle
  /\ cp_page # <<>>
  /\ cp_page[Len(cp_page)] # <<>>
  /\ RowsOnPage(cp_page) < MaxRows
  /\ \E r \in DataRows :
       cp_page' = [cp_page EXCEPT ![Len(cp_page)] = Append(@, r)]
  /\ UNCHANGED <<cp_result, hs_vars, pa_vars, db_vars, ord_vars, bot_vars>>

CpParse ==
  /\ cp_result = CpIdle
  /\ \E m \in {"January", "December"}, d \in {"Bronze"} :
       cp_result' = parse_contest_page(MonthYear(2024, m), d, cp_page)
  /\ UNCHANGED <<cp_page, hs_vars, pa_vars, db_vars, ord_vars, bot_vars>>

CpNext == CpAddTable \/ CpAddRow \/ CpParse

SpecContest == CpInit /\ [][CpNext]_vars

----------------------------------------------------------------------------
(* The history pages parse_history_page is given, and the specification of *)
(* parse_history_page: a page is put together section by section, year    *)
(* block by year block and node by node, then parsed.                     *)

El(t, src) == [kind |-> "element", text |-> t, src |-> src]
Tx(t) == [kind |-> "text", text |-> t, src |-> None]

Tx2017 == <<"2", "0", "1", "7">>
Tx2016 == <<"2", "0", "1", "6">>
TxBo == <<"B", "o">>

HistoryNodes ==
  { El(Tx2017, None),
    El(Tx2016 \o <<" ">>, None),
    El(<<>>, Some("current/images/medal_gold.png")),
    El(<<>>, Some("current/images/medal_other.png")),
    Tx(<<" ">> \o TxAl \o <<" ">>),
    Tx(VisaMarker),
    Tx(VisaMarker \o <<" ">> \o TxBo),
    Tx(VisaMarker \o TxBo),
    Tx(VisaMarker \o <<" ">> \o TxBo \o <<" ", "(", "3">> \o PlaceMarker),
    Tx(TxBo \o <<" ", "(", "3">> \o PlaceMarker) }

HistoryHeadings ==
  { None, Some(TxIOI), Some(TxEGOI), Some(TxEGOI \o <<" ">> \o TxIOI) }

MaxSections == 2
MaxYearDivs == 2
MaxNodes == 3

RECURSIVE YearDivsOn(_)
YearDivsOn(page) ==
  IF page = <<>> THEN 0 ELSE Len(Head(page).years) + YearDivsOn(Tail(page))

RECURSIVE NodesIn(_)
NodesIn(divs) == IF divs = <<>> THEN 0 ELSE Len(Head(divs)) + NodesIn(Tail(divs))

RECURSIVE NodesOn(_)
NodesOn(page) ==
  IF page = <<>> THEN 0 ELSE NodesIn(Head(page).years) + NodesOn(Tail(page))

HsInit == CpOff /\ HsOff /\ PaOff /\ DbOff /\ OrdOff /\ BotOff

\* The page gets one more section.
HsAddSection ==
  /\ hs_result = HsIdle
  /\ Len(hs_page) < MaxSections
  /\ \E h \in HistoryHeadings :
       hs_page' = Append(hs_page, [heading |-> h, years |-> <<>>])
  /\ UNCHANGED <<hs_result, cp_vars, pa_vars, db_vars, ord_vars, bot_vars>>

\* The last section gets one more year block.
HsAddYearDiv ==
  /\ hs_result = HsIdle
  /\ hs_page # <<>>
  /\ YearDivsOn(hs_page) < MaxYearDivs
  /\ hs_page' = [hs_page EXCEPT ![Len(hs_page)].years = Append(@, <<>>)]
  /\ UNCHANGED <<hs_result, cp_vars, pa_vars, db_vars, ord_vars, bot_vars>>

\* The last year block gets one more child node; the HTML parser never
\* leaves two text nodes next to each other.
HsAddNode ==
  /\ hs_result = HsIdle
  /\ hs_page # <<>>
  /\ hs_page[Len(hs_page)].years # <<>>
  /\ NodesOn(hs_page) < MaxNodes
  /\ LET s == Len(hs_page)
         y == Len(hs_page[s].years)
         div == hs_page[s].years[y]
     IN  \E n \in HistoryNodes :
           /\ ~(n.kind = "text" /\ div # <<>> /\ div[Len(div)].kind = "text")
           /\ hs_page' = [hs_page EXCEPT ![s].years[y] = Append(@, n)]
  /\ UNCHANGED <<hs_result, cp_vars, pa_vars, db_vars, ord_vars, bot_vars>>

HsParse ==
  /\ hs_result = HsIdle
  /\ hs_result' = parse_history_page(hs_page)
  /\ UNCHANGED <<hs_page, cp_vars, pa_vars, db_vars, ord_vars, bot_vars>>

HsNext == HsAddSection \/ HsAddYearDiv \/ HsAddNode \/ HsParse

SpecHistory == HsInit /\ [][HsNext]_vars

----------------------------------------------------------------------------
(* Specification of parse_all.  The season loop spawns the tasks; at the   *)
(* join the history page is requested and the fetches finish one by one,   *)
(* each with a response of the transport.                                  *)
(*                                                                         *)
(* The first MaxVaried contest tasks, the finalists tasks and the history  *)
(* fetch get any response and finish at any time; the other contest tasks  *)
(* are answered 200 with GoodContestPage and finish back to back in spawn  *)
(* order.                                                                  *)

MaxVaried == 2

JoinYears == {2011, 2012, 2013}
EnumYears == {2011, 2012, 2014, 2015, 2016, 2017, 2111, 2112}

TxHigh == <<"H", "i", "g", "h">>
TxCA == <<"C", "A">>

GoodContestPage ==
  << <<HdrObs, DataRow(<<TxUSA, TxAl, Tx100, <<>>, <<"*">>, <<>> >>)>> >>
ShortHeaderPage == << <<HdrShort>> >>
GoodCampPage ==
  << <<HdrRow(<<Th(YearText, None), Th(TxName, None), Th(TxHigh, None), Th(TxCA, None)>>),
       DataRow(<<Tx2024, TxAl, TxHigh, TxCA>>)>> >>
GoodHistoryPage ==
  <<[heading |-> Some(TxIOI),
     years |-> << <<El(Tx2017, None),
                    El(<<>>, Some("current/images/medal_gold.png")),
                    Tx(TxAl)>> >>]>>
EmptyYearPage == <<[heading |-> Some(TxEGOI), years |-> << <<>> >>]>>

ContestResponses ==
  { TransportError, Http(404, <<>>), Http(500, GoodContestPage),
    Http(200, GoodContestPage), Http(200, ShortHeaderPage) }
CampResponses ==
  { TransportError, Http(404, GoodCampPage), Http(200, GoodCampPage) }
HistoryResponses ==
  { TransportError, Http(404, <<>>), Http(500, GoodHistoryPage),
    Http(200, GoodHistoryPage), Http(200, EmptyYearPage) }

Done(seq) == {seq[k].task : k \in 1..Len(seq)}
ContestPending == (1..Len(pa_contests)) \ Done(pa_contests_done)
CampPending == (1..Len(pa_camps)) \ Done(pa_camps_done)

PaStart(years) ==
  /\ pa_max_year \in years
  /\ pa_pc = "loop"
  /\ pa_season = FirstSeason
  /\ pa_calls = <<>>
  /\ pa_contests = <<>>
  /\ pa_camps = <<>>
  /\ pa_contests_done = <<>>
  /\ pa_camps_done = <<>>
  /\ pa_history = [state |-> "idle"]
  /\ pa_result = PaIdle

\* One iteration of "for season in 2012..=max_year".
PaSeason ==
  /\ pa_pc = "loop"
  /\ pa_season <= pa_max_year
  /\ LET tasks == SeasonContestTasks(pa_season)
         camp == SeasonCampTask(pa_season)
     IN  /\ pa_calls' = pa_calls \o Urls(tasks) \o <<camp.url>>
         /\ pa_contests' = pa_contests \o tasks
         /\ pa_camps' = Append(pa_camps, camp)
  /\ pa_season' = pa_season + 1
  /\ UNCHANGED <<pa_max_year, pa_pc, pa_contests_done, pa_camps_done, pa_history,
                 pa_result, cp_vars, hs_vars, db_vars, ord_vars, bot_vars>>

\* The loop is over: tokio::join! polls its three futures, and the
\* intl_history future calls get_url.
PaJoin ==
  /\ pa_pc = "loop"
  /\ pa_season > pa_max_year
  /\ pa_pc' = "join"
  /\ pa_calls' = Append(pa_calls, HistoryUrl)
  /\ pa_history' = [state |-> "pending"]
  /\ UNCHANGED <<pa_max_year, pa_season, pa_contests, pa_camps, pa_contests_done,
                 pa_camps_done, pa_result, cp_vars, hs_vars, db_vars, ord_vars, bot_vars>>

ContestEntry(i, resp) ==
  [task |-> i, url |-> pa_contests[i].url, resp |-> resp,
   out |-> ContestTaskOutput(pa_contests[i], GetUrl(resp))]

CampEntry(i, resp) ==
  [task |-> i, url |-> pa_camps[i].url, resp |-> resp,
   out |-> CampTaskOutput(pa_camps[i], GetUrl(resp))]

\* A contest task gets its response and ends; join_all resumes the panic of
\* a task that panicked.
ContestTaskDone ==
  /\ pa_pc = "join"
  /\ \E i \in ContestPending, resp \in ContestResponses :
       /\ i <= MaxVaried
       /\ pa_contests_done' = Append(pa_contests_done, ContestEntry(i, resp))
       /\ pa_pc' = IF pa_contests_done'[Len(pa_contests_done')].out.kind = "Panic"
                   THEN "panic" ELSE "join"
  /\ UNCHANGED <<pa_max_year, pa_season, pa_calls, pa_contests, pa_camps,
                 pa_camps_done, pa_history, pa_result, cp_vars, hs_vars, db_vars, ord_vars, bot_vars>>

\* The contest tasks after the first MaxVaried end, in spawn order.
ContestRestDone ==
  /\ pa_pc = "join"
  /\ MaxVaried + 1 \in ContestPending
  /\ pa_contests_done' =
       pa_contests_done \o
         [k \in 1..(Len(pa_contests) - MaxVaried) |->
            ContestEntry(MaxVaried + k, Http(200, GoodContestPage))]
  /\ UNCHANGED <<pa_max_year, pa_pc, pa_season, pa_calls, pa_contests, pa_camps,
                 pa_camps_done, pa_history, pa_result, cp_vars, hs_vars, db_vars, ord_vars, bot_vars>>

\* A finalists task gets its response and ends.
CampTaskDone ==
  /\ pa_pc = "join"
  /\ \E i \in CampPending, resp \in CampResponses :
       pa_camps_done' = Append(pa_camps_done, CampEntry(i, resp))
  /\ UNCHANGED <<pa_max_year, pa_pc, pa_season, pa_calls, pa_contests, pa_camps,
                 pa_contests_done, pa_history, pa_result, cp_vars, hs_vars, db_vars, ord_vars, bot_vars>>

\* The history response arrives and parse_history_page runs in parse_all.
HistoryDone ==
  /\ pa_pc = "join"
  /\ pa_history.state = "pending"
  /\ \E resp \in HistoryResponses :
       /\ pa_history' = [state |-> "done", resp |-> resp,
                          out |-> HistoryOutput(GetUrl(resp))]
       /\ pa_pc' = IF pa_history'.out.kind = "Panic" THEN "panic" ELSE "join"
  /\ UNCHANGED <<pa_max_year, pa_season, pa_calls, pa_contests, pa_camps,
                 pa_contests_done, pa_camps_done, pa_result, cp_vars, hs_vars, db_vars, ord_vars, bot_vars>>

\* PaReturn not waiting for the tasks of the join sets: parse_all returns
\* once the history fetch has ended.
PaReturnEarly ==
  /\ pa_pc = "join"
  /\ pa_history.state = "done"
  /\ pa_result' = AfterJoin(pa_history, pa_contests_done, pa_camps_done)
  /\ pa_pc' = IF pa_result'.kind = "Ok" THEN "ok" ELSE "err"
  /\ UNCHANGED <<pa_max_year, pa_season, pa_calls, pa_contests, pa_camps,
                 pa_contests_done, pa_camps_done, pa_history, cp_vars, hs_vars,
                 db_vars, ord_vars, bot_vars>>

\* tokio::join! is ready: parse_all returns.
PaReturn ==
  /\ pa_pc = "join"
  /\ ContestPending = {}
  /\ CampPending = {}
  /\ pa_history.state = "done"
  /\ pa_result' = AfterJoin(pa_history, pa_contests_done, pa_camps_done)
  /\ pa_pc' = IF pa_result'.kind = "Ok" THEN "ok" ELSE "err"
  /\ UNCHANGED <<pa_max_year, pa_season, pa_calls, pa_contests, pa_camps,
                 pa_contests_done, pa_camps_done, pa_history, cp_vars, hs_vars, db_vars, ord_vars, bot_vars>>

Init == CpOff /\ HsOff /\ PaStart(JoinYears) /\ DbOff /\ OrdOff /\ BotOff

Next ==
  \/ PaSeason
  \/ PaJoin
  \/ ContestTaskDone
  \/ ContestRestDone
  \/ CampTaskDone
  \/ HistoryDone
  \/ PaReturn

Spec == Init /\ [][Next]_vars

\* The synchronous part of parse_all alone, for more values of max_year.
EnInit == CpOff /\ HsOff /\ PaStart(EnumYears) /\ DbOff /\ OrdOff /\ BotOff

EnNext == PaSeason \/ PaJoin

SpecEnum == EnInit /\ [][EnNext]_vars

----------------------------------------------------------------------------
(* The derived orders of Month, MonthYear and Graduation, and their        *)
(* specification: three values are drawn and compared with cmp.            *)

\* Ord::cmp of two integers.
IntCmp(x, y) == IF x < y THEN "Less" ELSE IF x = y THEN "Equal" ELSE "Greater"

\* Month compared in the order November, December, January, ... of a season.
MonthCmpBySeason(a, b) ==
  LET season == <<"November", "December", "January", "February", "March", "Open">>
  IN  IntCmp(Index(season, a), Index(season, b))

\* derive(Ord) on Month: the order of the variants.
MonthCmp(a, b) == IntCmp(Index(Months, a), Index(Months, b))

\* derive(Ord) on MonthYear: the fields in order, year then month.
MonthYearCmp(a, b) ==
  IF IntCmp(a.year, b.year) # "Equal" THEN IntCmp(a.year, b.year)
  ELSE MonthCmp(a.month, b.month)

\* The index of the variant of a Graduation.
GraduationVariant(g) == IF g.tag = "HighSchool" THEN 0 ELSE 1

\* Graduation compared with Observer before every HighSchool.
GraduationCmpObserverFirst(a, b) ==
  IF a.tag = "HighSchool" /\ b.tag = "HighSchool" THEN IntCmp(a.year, b.year)
  ELSE IntCmp(GraduationVariant(b), GraduationVariant(a))

\* derive(Ord) on Graduation: the variants in order, then the year.
GraduationCmp(a, b) ==
  IF GraduationVariant(a) # GraduationVariant(b)
  THEN IntCmp(GraduationVariant(a), GraduationVariant(b))
  ELSE IF a.tag = "HighSchool" THEN IntCmp(a.year, b.year)
  ELSE "Equal"

OrdYears == {2024, 2025}
MonthYearValues == {MonthYear(y, Months[m]) : y \in OrdYears, m \in 1..Len(Months)}
GraduationValues == {HighSchool(y) : y \in {0} \cup OrdYears} \cup {Observer}

IsMonthYear(x) == "month" \in DOMAIN x

OrdInit ==
  /\ CpOff /\ HsOff /\ PaOff /\ DbOff /\ BotOff
  /\ \/ ord_a \in MonthYearValues /\ ord_b \in MonthYearValues /\ ord_c \in MonthYearValues
     \/ ord_a \in GraduationValues /\ ord_b \in GraduationValues /\ ord_c \in GraduationValues
  /\ ord_result = DbIdle

\* The outcomes of cmp on the pairs of the three values.
Compared(kind, cmp(_, _)) ==
  [kind |-> kind, ab |-> cmp(ord_a, ord_b), ba |-> cmp(ord_b, ord_a),
   bc |-> cmp(ord_b, ord_c), ac |-> cmp(ord_a, ord_c)]

CmpMonthYear ==
  /\ ord_result = DbIdle
  /\ IsMonthYear(ord_a)
  /\ ord_result' = Compared("MonthYear", MonthYearCmp)
  /\ UNCHANGED <<ord_a, ord_b, ord_c, cp_vars, hs_vars, pa_vars, db_vars, bot_vars>>

CmpGraduation ==
  /\ ord_result = DbIdle
  /\ ~IsMonthYear(ord_a)
  /\ ord_result' = Compared("Graduation", GraduationCmp)
  /\ UNCHANGED <<ord_a, ord_b, ord_c, cp_vars, hs_vars, pa_vars, db_vars, bot_vars>>

OrdNext == CmpMonthYear \/ CmpGraduation

SpecOrd == OrdInit /\ [][OrdNext]_vars

----------------------------------------------------------------------------
(* The database of the bot: UsacoDb::from(UsacoData) and query_name *)

UpperChars ==
  <<"A", "B", "C", "D", "E", "F", "G", "H", "I", "J", "K", "L", "M",
    "N", "O", "P", "Q", "R", "S", "T", "U", "V", "W", "X", "Y", "Z">>
LowerChars ==
  <<"a", "b", "c", "d", "e", "f", "g", "h", "i", "j", "k", "l", "m",
    "n", "o", "p", "q", "r", "s", "t", "u", "v", "w", "x", "y", "z">>

\* The characters in the order of their UTF-8 encodings, the order String
\* compares in.
CodeOrder ==
  <<" ", "(", ")", "*">> \o Digits \o UpperChars \o LowerChars \o <<"nbsp", "eacute">>

\* str::to_lowercase, character by character.
ToLowercase(s) ==
  [i \in 1..Len(s) |->
     IF \E k \in 1..Len(UpperChars) : UpperChars[k] = s[i]
     THEN LowerChars[Index(UpperChars, s[i])]
     ELSE s[i]]

\* Ord::cmp of two String: lexicographic, by bytes.
RECURSIVE StringCmp(_, _)
StringCmp(a, b) ==
  IF a = <<>> /\ b = <<>> THEN "Equal"
  ELSE IF a = <<>> THEN "Less"
  ELSE IF b = <<>> THEN "Greater"
  ELSE IF Head(a) # Head(b)
  THEN IntCmp(Index(CodeOrder, Head(a)), Index(CodeOrder, Head(b)))
  ELSE StringCmp(Tail(a), Tail(b))

\* ParticipantIdCmp comparing graduation, then country, then name.
ParticipantIdCmpGraduationFirst(a, b) ==
  IF GraduationCmp(a.graduation, b.graduation) # "Equal"
  THEN GraduationCmp(a.graduation, b.graduation)
  ELSE IF StringCmp(a.country, b.country) # "Equal"
  THEN StringCmp(a.country, b.country)
  ELSE StringCmp(a.name, b.name)

\* derive(Ord) on ParticipantId: the fields in order, name, graduation,
\* country.
ParticipantIdCmp(a, b) ==
  IF StringCmp(a.name, b.name) # "Equal" THEN StringCmp(a.name, b.name)
  ELSE IF GraduationCmp(a.graduation, b.graduation) # "Equal"
  THEN GraduationCmp(a.graduation, b.graduation)
  ELSE StringCmp(a.country, b.country)

\* From<CampParticipant> giving the id no country.
CampParticipantIdNoCountry(value) ==
  [name |-> value.name, country |-> <<>>,
   graduation |-> HighSchool(value.graduation_year)]

\* impl From<ContestParticipant> for ParticipantId
ContestParticipantId(value) ==
  [name |-> value.name, country |-> value.country, graduation |-> value.graduation]

\* impl From<CampParticipant> for ParticipantId
CampParticipantId(value) ==
  [name |-> value.name, country |-> TxUSA,
   graduation |-> HighSchool(value.graduation_year)]

\* The pushes of the loop over value.contests, in order: the id and the
\* ParticipantContestRecord of each.
RECURSIVE ContestPushes(_)
ContestPushes(contests) ==
  IF contests = <<>> THEN <<>>
  ELSE LET contest == Head(contests)
       IN  [k \in 1..Len(contest.participants) |->
              [id |-> ContestParticipantId(contest.participants[k]),
               record |-> [contest_time |-> contest.time,
                           division |-> contest.division,
                           score |-> contest.participants[k].score]]]
           \o ContestPushes(Tail(contests))

\* The pushes of the loop over value.camps.
RECURSIVE CampPushes(_)
CampPushes(camps) ==
  IF camps = <<>> THEN <<>>
  ELSE LET camp == Head(camps)
       IN  [k \in 1..Len(camp.participants) |->
              [id |-> CampParticipantId(camp.participants[k]),
               record |-> [camp_year |-> camp.year]]]
           \o CampPushes(Tail(camps))

\* The records pushed to the entry of id, in order.
RECURSIVE RecordsOf(_, _)
RecordsOf(pushes, id) ==
  IF pushes = <<>> THEN <<>>
  ELSE (IF Head(pushes).id = id THEN <<Head(pushes).record>> ELSE <<>>)
       \o RecordsOf(Tail(pushes), id)

\* Regex \(.+\) followed by a space, replaced once by nothing: the leftmost
\* "(" that has a ") " at least one character later, up to the last ") ".
RegexReplace(name) ==
  LET ends(i) == {j \in (i + 2)..(Len(name) - 1) : name[j] = ")" /\ name[j + 1] = " "}
      starts == {i \in 1..Len(name) : name[i] = "(" /\ ends(i) # {}}
  IN  IF starts = {} THEN name
      ELSE LET i == SeqMin(starts)
               j == CHOOSE j \in ends(i) : \A k \in ends(i) : k <= j
           IN  SubSeq(name, 1, i - 1) \o SubSeq(name, j + 2, Len(name))

StripPreferred(comp) == [k \in 1..Len(comp) |-> [comp[k] EXCEPT !.name = RegexReplace(@)]]

\* The values of the HashMap built by UsacoDb::from.
DbParticipants(value) ==
  LET contests == ContestPushes(value.contests)
      camps == CampPushes(value.camps)
  IN  {[id |-> id, contests |-> RecordsOf(contests, id), camps |-> RecordsOf(camps, id)] :
         id \in {contests[k].id : k \in 1..Len(contests)}
                \cup {camps[k].id : k \in 1..Len(camps)}}

\* The sequences that hold each element of the set once.
SeqsOf(S) ==
  {f \in [1..Cardinality(S) -> S] : \A i, j \in 1..Cardinality(S) : f[i] = f[j] => i = j}

\* impl From<UsacoData> for UsacoDb: into_values() gives the participants
\* in an order that is not determined, so every order is a possible UsacoDb.
UsacoDbFrom(value) ==
  {[participants |-> ps,
    intl_history |-> [ioi |-> StripPreferred(value.intl_history.ioi),
                      egoi |-> StripPreferred(value.intl_history.egoi)]] :
     ps \in SeqsOf(DbParticipants(value))}

\* The name query_name looks for.
QueryKey(name) == Join(SplitWhitespace(ToLowercase(name)), <<" ">>)

\* iter().filter(..).cloned().collect() on the stored names.
RECURSIVE FilterName(_, _, _)
FilterName(entries, key, ofId) ==
  IF entries = <<>> THEN <<>>
  ELSE LET stored == IF ofId THEN Head(entries).id.name ELSE Head(entries).name
       IN  (IF ToLowercase(stored) = key THEN <<Head(entries)>> ELSE <<>>)
           \o FilterName(Tail(entries), key, ofId)

\* sort_unstable_by(|p1, p2| p1.id.cmp(&p2.id)), the ids being distinct.
RECURSIVE SortParticipants(_)
SortParticipants(ps) ==
  IF ps = <<>> THEN <<>>
  ELSE LET sorted == SortParticipants(SubSeq(ps, 1, Len(ps) - 1))
           x == ps[Len(ps)]
           k == Cardinality({i \in 1..Len(sorted) :
                               ParticipantIdCmp(sorted[i].id, x.id) # "Greater"})
       IN  SubSeq(sorted, 1, k) \o <<x>> \o SubSeq(sorted, k + 1, Len(sorted))

\* sort_unstable_by_key on the records of one participant: the order of
\* records with equal keys is not determined.
SortedContestRecords(records) ==
  {f \in SeqsOf(1..Len(records)) :
     \A i, j \in 1..Len(records) :
       i < j => ContestKeyLessEq([time |-> records[f[i]].contest_time,
                                  division |-> records[f[i]].division],
                                 [time |-> records[f[j]].contest_time,
                                  division |-> records[f[j]].division])}

SortedByYear(entries, year(_)) ==
  {f \in SeqsOf(1..Len(entries)) :
     \A i, j \in 1..Len(entries) : i < j => year(entries[f[i]]) <= year(entries[f[j]])}

Permuted(entries, f) == [i \in 1..Len(entries) |-> entries[f[i]]]

CampYear(c) == c.camp_year
IntlYear(c) == c.year

\* query_name: every NameQueryResult the call can return.
query_name(self, name) ==
  LET key == QueryKey(name)
      ps == SortParticipants(FilterName(self.participants, key, TRUE))
      ioi == FilterName(self.intl_history.ioi, key, FALSE)
      egoi == FilterName(self.intl_history.egoi, key, FALSE)
      orders == {o \in [1..Len(ps) -> [contests : UNION {SortedContestRecords(ps[i].contests) : i \in 1..Len(ps)},
                                         camps : UNION {SortedByYear(ps[i].camps, CampYear) : i \in 1..Len(ps)}]] :
                   \A i \in 1..Len(ps) :
                     /\ o[i].contests \in SortedContestRecords(ps[i].contests)
                     /\ o[i].camps \in SortedByYear(ps[i].camps, CampYear)}
  IN  {[participants |->
          [i \in 1..Len(ps) |->
             [id |-> ps[i].id,
              contests |-> Permuted(ps[i].contests, o[i].contests),
              camps |-> Permuted(ps[i].camps, o[i].camps)]],
        ioi |-> Permuted(ioi, fi),
        egoi |-> Permuted(egoi, fe)] :
         o \in orders, fi \in SortedByYear(ioi, IntlYear), fe \in SortedByYear(egoi, IntlYear)}

\* The data UsacoDb::from is given, as parse_all and the file store produce
\* it: contests and camps sorted, names of contest and camp participants
\* normalized, names of the history page only trimmed.
MaxDbRecords == 3

DbName1 == <<"A", "l">>
DbName2 == <<"A", "L">>
DbName3 == <<"A", "l", " ", "B", "o">>
DbName4 == <<"A", "l", " ", " ", "B", "o">>
DbName5 == <<"(", "A", ")", " ", "A", "l">>
DbName6 == <<"(", "A", ")", " ", "A", "l", " ", "(", "B", ")", " ", "B", "o">>
TxCAN == <<"C", "A", "N">>

DbContestant(name, country, graduation, score) ==
  [name |-> name, country |-> country, graduation |-> graduation, score |-> score]

DbContestants ==
  {DbContestant(DbName1, TxUSA, HighSchool(2024), 100),
   DbContestant(DbName1, TxUSA, HighSchool(2024), 900),
   DbContestant(DbName2, TxUSA, Observer, 100),
   DbContestant(DbName1, TxCAN, HighSchool(2024), 100),
   DbContestant(DbName3, TxUSA, HighSchool(2024), 100),
   DbContestant(DbName1, TxUSA, Observer, 100)}

DbCampers ==
  {[name |-> DbName1, graduation_year |-> 2024],
   [name |-> DbName3, graduation_year |-> 2025],
   [name |-> DbName5, graduation_year |-> 2024]}

DbIntl ==
  {[year |-> 2017, result |-> "Gold", name |-> DbName1],
   [year |-> 2016, result |-> "Silver", name |-> DbName4],
   [year |-> 2016, result |-> "Bronze", name |-> DbName5],
   [year |-> 2021, result |-> "Gold", name |-> DbName2],
   [year |-> 2022, result |-> "NoMedal", name |-> DbName3],
   [year |-> 2019, result |-> "Bronze", name |-> DbName6]}

DbQueries ==
  {<<"a", "l">>, <<"A">>, <<" ", "A", "L", " ", " ", "b", "o", " ">>}

DbEmpty ==
  [kind |-> "data",
   contests |-> <<[time |-> MonthYear(2023, "December"), division |-> "Gold",
                   participants |-> <<>>],
                  [time |-> MonthYear(2024, "January"), division |-> "Gold",
                   participants |-> <<>>]>>,
   camps |-> <<[year |-> 2023, participants |-> <<>>],
               [year |-> 2024, participants |-> <<>>]>>,
   intl_history |-> [ioi |-> <<>>, egoi |-> <<>>]]

DbRecordCount(data) ==
  Len(ContestPushes(data.contests)) + Len(CampPushes(data.camps))
  + Len(data.intl_history.ioi) + Len(data.intl_history.egoi)

DbInit ==
  /\ db_data = DbEmpty
  /\ db = DbIdle
  /\ q_name = <<>>
  /\ q_result = DbIdle
  /\ CpOff /\ HsOff /\ PaOff /\ OrdOff /\ BotOff

DbCanAdd == db = DbIdle /\ DbRecordCount(db_data) < MaxDbRecords

\* One more row of a contest page; a page lists a participant once.
DbAddContestant ==
  /\ DbCanAdd
  /\ \E c \in 1..Len(db_data.contests), p \in DbContestants :
       /\ \A k \in 1..Len(db_data.contests[c].participants) :
            ContestParticipantId(db_data.contests[c].participants[k])
              # ContestParticipantId(p)
       /\ db_data' = [db_data EXCEPT !.contests[c].participants = Append(@, p)]
  /\ UNCHANGED <<db, q_name, q_result, cp_vars, hs_vars, pa_vars, ord_vars, bot_vars>>

\* One more finalist of a camp page.
DbAddCamper ==
  /\ DbCanAdd
  /\ \E c \in 1..Len(db_data.camps), p \in DbCampers :
       db_data' = [db_data EXCEPT !.camps[c].participants = Append(@, p)]
  /\ UNCHANGED <<db, q_name, q_result, cp_vars, hs_vars, pa_vars, ord_vars, bot_vars>>

\* One more team member of the history page.
DbAddIntl ==
  /\ DbCanAdd
  /\ \E p \in DbIntl :
       \/ db_data' = [db_data EXCEPT !.intl_history.ioi = Append(@, p)]
       \/ db_data' = [db_data EXCEPT !.intl_history.egoi = Append(@, p)]
  /\ UNCHANGED <<db, q_name, q_result, cp_vars, hs_vars, pa_vars, ord_vars, bot_vars>>

\* *ctx.data().db.lock().await = data.into()
DbBuild ==
  /\ db = DbIdle
  /\ \E d \in UsacoDbFrom(db_data) : db' = [kind |-> "db", value |-> d]
  /\ UNCHANGED <<db_data, q_name, q_result, cp_vars, hs_vars, pa_vars, ord_vars, bot_vars>>

\* db.query_name(&name)
DbQuery ==
  /\ db # DbIdle
  /\ q_result = DbIdle
  /\ \E name \in DbQueries :
       /\ q_name' = name
       /\ \E r \in query_name(db.value, name) :
            q_result' = [kind |-> "result", value |-> r]
  /\ UNCHANGED <<db_data, db, cp_vars, hs_vars, pa_vars, ord_vars, bot_vars>>

DbNext == DbAddContestant \/ DbAddCamper \/ DbAddIntl \/ DbBuild \/ DbQuery

SpecDb == DbInit /\ [][DbNext]_vars

----------------------------------------------------------------------------
(* Properties of UsacoDb::from and query_name, under SpecDb *)

\* The rows of the contests and of the camps of the data, by position.
ContestRows == {<<c, k>> \in (1..2) \X (1..MaxDbRecords + 1) :
                  k <= Len(db_data.contests[c].participants)}
CampRows == {<<c, k>> \in (1..2) \X (1..MaxDbRecords + 1) :
               k <= Len(db_data.camps[c].participants)}

ContestRowId(r) ==
  LET p == db_data.contests[r[1]].participants[r[2]]
  IN  [name |-> p.name, country |-> p.country, graduation |-> p.graduation]
ContestRowRecord(r) ==
  [contest_time |-> db_data.contests[r[1]].time,
   division |-> db_data.contests[r[1]].division,
   score |-> db_data.contests[r[1]].participants[r[2]].score]
CampRowId(r) ==
  LET p == db_data.camps[r[1]].participants[r[2]]
  IN  [name |-> p.name, country |-> <<"U", "S", "A">>,
       graduation |-> [tag |-> "HighSchool", year |-> p.graduation_year]]
CampRowRecord(r) == [camp_year |-> db_data.camps[r[1]].year]

DataIds == {ContestRowId(r) : r \in ContestRows} \cup {CampRowId(r) : r \in CampRows}

Occurrences(seq, x) == Cardinality({i \in 1..Len(seq) : seq[i] = x})

\* The participant holds the records of the rows of its id, each as often as
\* the data has it, and nothing else.
HoldsItsRecords(p) ==
  LET crows == {r \in ContestRows : ContestRowId(r) = p.id}
      mrows == {r \in CampRows : CampRowId(r) = p.id}
  IN  /\ Len(p.contests) = Cardinality(crows)
      /\ Len(p.camps) = Cardinality(mrows)
      /\ \A r \in crows :
           Occurrences(p.contests, ContestRowRecord(r))
             = Cardinality({q \in crows : ContestRowRecord(q) = ContestRowRecord(r)})
      /\ \A r \in mrows :
           Occurrences(p.camps, CampRowRecord(r))
             = Cardinality({q \in mrows : CampRowRecord(q) = CampRowRecord(r)})

\* C13: consolidation groups the contest and camp records by ParticipantId
\* (name, country, graduation), a camp record counting as country "USA" and
\* HighSchool{graduation_year}: every id of the data has exactly one
\* Participant, which holds all the records of that id and no other record.
C13_ConsolidatedById ==
  db # DbIdle =>
    LET ps == db.value.participants
    IN  /\ \A id \in DataIds : Cardinality({i \in 1..Len(ps) : ps[i].id = id}) = 1
        /\ \A i \in 1..Len(ps) : ps[i].id \in DataIds /\ HoldsItsRecords(ps[i])

\* A participant built from its rows of two contests, with different scores,
\* next to a participant built from a camp row.
C13_Witness ==
  /\ db # DbIdle
  /\ Len(db.value.participants) = 2
  /\ \E i, j \in 1..2 :
       /\ Len(db.value.participants[i].contests) = 2
       /\ db.value.participants[i].contests[1].score
            # db.value.participants[i].contests[2].score
       /\ Len(db.value.participants[j].camps) = 1

\* Case folded, white space runs collapsed, ends trimmed.
Folded(s) == normalize_text(ToLowercase(s))

MatchingIndexes(entries, ofId) ==
  {i \in 1..Len(entries) :
     Folded(IF ofId THEN entries[i].id.name ELSE entries[i].name) = Folded(q_name)}

\* C14: query_name returns exactly the participants and the IOI/EGOI entries
\* whose stored name equals the query when both are case-folded and
\* whitespace-normalized.
C14_ExactNormalizedMatch ==
  q_result # DbIdle =>
    LET d == db.value
        r == q_result.value
    IN  /\ {r.participants[i].id : i \in 1..Len(r.participants)}
             = {d.participants[i].id : i \in MatchingIndexes(d.participants, TRUE)}
        /\ Len(r.participants) = Cardinality(MatchingIndexes(d.participants, TRUE))
        /\ \A e \in Range(d.intl_history.ioi) \cup Range(r.ioi) :
             Occurrences(r.ioi, e)
               = Cardinality({i \in MatchingIndexes(d.intl_history.ioi, FALSE) :
                                d.intl_history.ioi[i] = e})
        /\ \A e \in Range(d.intl_history.egoi) \cup Range(r.egoi) :
             Occurrences(r.egoi, e)
               = Cardinality({i \in MatchingIndexes(d.intl_history.egoi, FALSE) :
                                d.intl_history.egoi[i] = e})

GraduationRank(g) == IF g.tag = "Observer" THEN U16Max + 1 ELSE g.year

\* C15: the participants query_name returns are in order of graduation
\* (Observer last) and then of country.
C15_OrderedByGraduationThenCountry ==
  q_result # DbIdle =>
    LET ps == q_result.value.participants
    IN  \A i, j \in 1..Len(ps) :
          i < j =>
            \/ GraduationRank(ps[i].id.graduation) < GraduationRank(ps[j].id.graduation)
            \/ /\ ps[i].id.graduation = ps[j].id.graduation
               /\ StringCmp(ps[i].id.country, ps[j].id.country) # "Greater"

----------------------------------------------------------------------------
(* Properties of parse_all, checked under Spec *)

Responses ==
  {pa_contests_done[k].resp : k \in 1..Len(pa_contests_done)}
  \cup {pa_camps_done[k].resp : k \in 1..Len(pa_camps_done)}
  \cup (IF pa_history.state = "done" THEN {pa_history.resp} ELSE {})

TransportErrorSeen == \E r \in Responses : r.kind = "error"

Answered2xx(done) ==
  {k \in 1..Len(done) :
     done[k].resp.kind = "http" /\ done[k].resp.status \in 200..299}

\* C1: in a run in which no get returns a transport error, parse_all neither
\* returns Err nor faults, whatever the statuses and the bodies of the pages.
C1_FailsOnlyOnTransportError ==
  pa_pc \in {"err", "panic"} => TransportErrorSeen

\* C2: once a get has returned a transport error, parse_all ends by returning
\* Err, and returns no UsacoData.
C2_TransportErrorIsReturned ==
  (TransportErrorSeen /\ pa_pc \in {"ok", "err", "panic"}) =>
    (pa_pc = "err" /\ pa_result.kind = "Err")

\* C3: the returned UsacoData has exactly one Contest per contest URL answered
\* 2xx and one Camp per finalists URL answered 2xx, none for the other URLs,
\* and empty ioi and egoi lists when the history page was not answered 2xx.
C3_Non2xxContributesNothing ==
  pa_pc = "ok" =>
    LET data == pa_result.data
        cs == Answered2xx(pa_contests_done)
        ms == Answered2xx(pa_camps_done)
    IN  /\ Len(data.contests) = Cardinality(cs)
        /\ \A k \in cs :
             \E i \in 1..Len(data.contests) :
               /\ data.contests[i].time = pa_contests[pa_contests_done[k].task].time
               /\ data.contests[i].division =
                    pa_contests[pa_contests_done[k].task].division
        /\ Len(data.camps) = Cardinality(ms)
        /\ \A k \in ms :
             \E i \in 1..Len(data.camps) :
               data.camps[i].year = pa_camps[pa_camps_done[k].task].season
        /\ (pa_history.resp.status \notin 200..299) =>
             (data.intl_history.ioi = <<>> /\ data.intl_history.egoi = <<>>)

\* parse_all returned Ok after a contest page, a finalists page and the
\* history page were answered with a status that is not 2xx, the contest page
\* once with 404 and once with another status.
C3_Witness ==
  /\ pa_pc = "ok"
  /\ \E k \in 1..Len(pa_contests_done) : pa_contests_done[k].resp.status = 404
  /\ \E k \in 1..Len(pa_contests_done) : pa_contests_done[k].resp.status = 500
  /\ \E k \in 1..Len(pa_camps_done) : pa_camps_done[k].resp.status = 404
  /\ \E k \in 1..Len(pa_camps_done) : pa_camps_done[k].resp.status = 200
  /\ pa_history.resp.status = 500

MonthRank(m) ==
  CASE m = "January" -> 1 [] m = "February" -> 2 [] m = "March" -> 3
    [] m = "Open" -> 4 [] m = "November" -> 5 [] m = "December" -> 6

DivisionRank(d) ==
  CASE d = "Bronze" -> 1 [] d = "Silver" -> 2 [] d = "Gold" -> 3 [] d = "Platinum" -> 4

C6_Key(c) == <<c.time.year, MonthRank(c.time.month), DivisionRank(c.division)>>

C6_Less(a, b) ==
  \/ a[1] < b[1]
  \/ a[1] = b[1] /\ a[2] < b[2]
  \/ a[1] = b[1] /\ a[2] = b[2] /\ a[3] < b[3]

\* C6: whatever order the fetches completed in, the returned contests are in
\* order of (time, division) and the camps in order of year; the keys are
\* distinct and the contests and camps are those of the responses, so the two
\* sequences depend on the responses only.
C6_SortedWhateverTheOrder ==
  pa_pc = "ok" =>
    LET data == pa_result.data
    IN  /\ \A i, j \in 1..Len(data.contests) :
             i < j => C6_Less(C6_Key(data.contests[i]), C6_Key(data.contests[j]))
        /\ \A i, j \in 1..Len(data.camps) :
             i < j => data.camps[i].year < data.camps[j].year
        /\ Range(data.contests) =
             {Unwrap(pa_contests_done[k].out.value) :
                k \in Answered2xx(pa_contests_done)}
        /\ Range(data.camps) =
             {Unwrap(pa_camps_done[k].out.value) : k \in Answered2xx(pa_camps_done)}

\* parse_all returned Ok after two contest tasks and two finalists tasks, all
\* answered 2xx, completed in the reverse of their spawn order.
C6_Witness ==
  /\ pa_pc = "ok"
  /\ \E a, b \in Answered2xx(pa_contests_done) :
       a < b /\ pa_contests_done[a].task > pa_contests_done[b].task
  /\ \E a, b \in Answered2xx(pa_camps_done) :
       a < b /\ pa_camps_done[a].task > pa_camps_done[b].task

\* C18: parse_all has a result, Ok or Err, only when every contest task and
\* every finalists task it spawned and the history fetch have ended; while
\* the season loop runs nothing is awaited and nothing is returned.
C18_ReturnsAfterAllFetches ==
  /\ pa_result # PaIdle =>
       /\ pa_pc \in {"ok", "err"}
       /\ {pa_contests_done[k].task : k \in 1..Len(pa_contests_done)} = 1..Len(pa_contests)
       /\ {pa_camps_done[k].task : k \in 1..Len(pa_camps_done)} = 1..Len(pa_camps)
       /\ pa_history.state = "done"
  /\ pa_pc \in {"ok", "err"} => pa_result # PaIdle
  /\ pa_pc = "loop" =>
       pa_contests_done = <<>> /\ pa_camps_done = <<>> /\ pa_history.state = "idle"

\* parse_all returned Err for a transport error that was the first response
\* to arrive, after all the other tasks of two seasons had ended too.
C18_Witness ==
  /\ pa_pc = "err"
  /\ pa_max_year = 2013
  /\ pa_contests_done[1].resp = TransportError
  /\ Len(pa_contests_done) = Len(pa_contests)
  /\ Len(pa_camps_done) = 2

----------------------------------------------------------------------------
(* Properties of the URL enumeration, checked under SpecEnum *)

C4_Months(season) ==
  IF season <= 2014 THEN {"nov", "dec", "jan", "feb", "mar", "open"}
  ELSE {"dec", "jan", "feb", "open"}

C4_Divisions(season) ==
  IF season <= 2015 THEN {"bronze", "silver", "gold"}
  ELSE {"bronze", "silver", "gold", "platinum"}

C4_SeasonUrls(season) ==
  {[page |-> "results", month |-> m,
    yy |-> (IF m \in {"nov", "dec"} THEN season - 1 ELSE season) % 100,
    division |-> d] : m \in C4_Months(season), d \in C4_Divisions(season)}
  \cup {[page |-> "finalists", month |-> "", yy |-> season % 100, division |-> ""]}

\* The URLs of the enumeration for max_year.
C4_Enumeration(max_year) ==
  UNION {C4_SeasonUrls(season) : season \in 2012..max_year}
  \cup {[page |-> "history", month |-> "", yy |-> 0, division |-> ""]}

C4_CalledOnceEach ==
  /\ Range(pa_calls) = C4_Enumeration(pa_max_year)
  /\ Len(pa_calls) = Cardinality(C4_Enumeration(pa_max_year))

C5_Season2016 ==
  {u \in Range(pa_calls) :
     /\ u.page = "results"
     /\ \/ u.month \in {"nov", "dec"} /\ u.yy = 15
        \/ u.month \notin {"nov", "dec"} /\ u.yy = 16}

\* C5 as stated: for max_year = 2016 the contest URLs of season 2016 cover the
\* divisions Bronze, Silver and Gold only and the months Dec, Jan, Feb, Open.
C5_Season2016WithoutPlatinum ==
  (pa_pc = "join" /\ pa_max_year = 2016) =>
    /\ {u.division : u \in C5_Season2016} = {"bronze", "silver", "gold"}
    /\ {u.month : u \in C5_Season2016} = {"dec", "jan", "feb", "open"}

\* C5 as amended: for max_year = 2016 the contest URLs of season 2016 cover
\* the divisions Bronze, Silver, Gold and Platinum and the months Dec, Jan,
\* Feb, Open.
C5_Season2016WithPlatinum ==
  (pa_pc = "join" /\ pa_max_year = 2016) =>
    /\ {u.division : u \in C5_Season2016} = {"bronze", "silver", "gold", "platinum"}
    /\ {u.month : u \in C5_Season2016} = {"dec", "jan", "feb", "open"}

\* The loop of a run for max_year = 2016 is over, season 2016 requested.
C5_Witness ==
  pa_pc = "join" /\ pa_max_year = 2016 /\ pa_season = 2017 /\ C5_Season2016 # {}

----------------------------------------------------------------------------
(* Properties of parse_contest_page, checked under SpecContest *)

\* C7: parse_contest_page never fails its caller: for every page, also one
\* with a table whose first row has fewer than two header cells, the call
\* returns a Contest and does not panic.
C7_ReturnsContest == cp_result # CpIdle => cp_result.kind = "ok"

FirstIndex(s, x) == SeqMin({i \in 1..Len(s) : s[i] = x})

C10_RowRead(p, table, r) ==
  LET td == table[r].td
      cell(i) == normalize_text(td[i].text)
  IN  IF normalize_text(table[1].th[2].text) = YearText
      THEN /\ Len(td) >= 4
           /\ parse_uint(cell(2), U16Max) # None
           /\ p.graduation = HighSchool(Unwrap(parse_uint(cell(2), U16Max)))
           /\ p.country = cell(1)
           /\ p.name = cell(3)
           /\ parse_uint(cell(4), U16Max) = Some(p.score)
      ELSE /\ Len(td) >= 3
           /\ p.graduation = Observer
           /\ p.country = cell(1)
           /\ p.name = cell(2)
           /\ parse_uint(cell(3), U16Max) = Some(p.score)

\* C10: every participant parsed from a table whose second header cell is
\* not "Year" is an Observer read without a year cell, every participant of a
\* table whose second header cell is "Year" has HighSchool{year} from its
\* row's second cell; the mode is that of the table, not of the page: the
\* page yields what its tables yield one by one.
C10_PerTableMode ==
  cp_result.kind = "ok" =>
    LET c == cp_result.value
        one(t) == parse_contest_page(c.time, c.division, <<cp_page[t]>>)
    IN  /\ \A t \in 1..Len(cp_page) :
             /\ one(t).kind = "ok"
             /\ \A p \in Range(one(t).value.participants) :
                  \E r \in 2..Len(cp_page[t]) : C10_RowRead(p, cp_page[t], r)
        /\ Range(c.participants) =
             UNION {Range(one(t).value.participants) : t \in 1..Len(cp_page)}

\* A page with a "Year" table and an observer table, each contributing a
\* participant, was parsed.
C10_Witness ==
  /\ cp_result.kind = "ok"
  /\ Len(cp_page) = 2
  /\ \E p, q \in Range(cp_result.value.participants) :
       p.graduation.tag = "HighSchool" /\ q.graduation = Observer

----------------------------------------------------------------------------
(* Properties of parse_history_page, checked under SpecHistory *)

\* C8: parse_history_page never panics: a year block whose text is shorter
\* than four characters and an entry made of the visa marker alone are
\* skipped or recorded, and an IntlHistory is returned for every page.
C8_ReturnsHistory == hs_result # HsIdle => hs_result.kind = "ok"

\* The trimmed texts of the text nodes of the year blocks of the page.
EntryTexts(page) ==
  UNION {UNION {{Trim(page[s].years[y][k].text) :
                   k \in {k \in 1..Len(page[s].years[y]) :
                            page[s].years[y][k].kind = "text"}} :
                y \in 1..Len(page[s].years)} :
         s \in 1..Len(page)}

VisaTexts(page) == {t \in EntryTexts(page) : StartsWith(t, VisaMarker)}
MedalTexts(page) == {t \in EntryTexts(page) : ~StartsWith(t, VisaMarker)}

\* The entries of the IntlHistory returned.
Recorded == Range(hs_result.value.ioi) \cup Range(hs_result.value.egoi)

\* The text with exactly the three characters of the visa marker removed.
WithoutMarker(t) == Trim(SubSeq(t, Len(VisaMarker) + 1, Len(t)))

\* C11: every entry recorded with VisaIssue has as name the text of a visa
\* entry of the page with exactly the marker removed and the white space
\* around it trimmed, whatever character follows the marker.
C11_MarkerStripped ==
  hs_result.kind = "ok" =>
    \A e \in Recorded :
      e.result = "VisaIssue" => \E t \in VisaTexts(hs_page) : e.name = WithoutMarker(t)

\* The text before the last "(" of a text that carries a placement
\* annotation, trimmed; any other text as it is.
WithoutPlace(t) ==
  IF Contains(t, PlaceMarker)
  THEN Trim(SubSeq(t, 1, (CHOOSE i \in 1..Len(t) :
                            t[i] = "(" /\ \A j \in (i + 1)..Len(t) : t[j] # "(") - 1))
  ELSE t

\* C12 as stated: every recorded entry, medal entry or visa-issue entry, has
\* as name its text without the trailing placement annotation (for a
\* visa-issue entry, the text after the marker, with or without the character
\* that follows the marker).
C12_PlaceStrippedEverywhere ==
  hs_result.kind = "ok" =>
    \A e \in Recorded :
      IF e.result = "VisaIssue"
      THEN \E t \in VisaTexts(hs_page) :
             \/ e.name = WithoutPlace(WithoutMarker(t))
             \/ e.name = WithoutPlace(Trim(SubSeq(t, Len(VisaMarker) + 2, Len(t))))
      ELSE \E t \in MedalTexts(hs_page) : e.name = WithoutPlace(t)

\* C12 as amended: every recorded medal entry has as name its text without
\* the trailing placement annotation; a visa-issue entry is recorded before
\* the annotation is looked for, and keeps it.
C12_PlaceStrippedFromMedalEntries ==
  hs_result.kind = "ok" =>
    \A e \in Recorded :
      IF e.result = "VisaIssue"
      THEN \E t \in VisaTexts(hs_page) :
             Contains(e.name, PlaceMarker) = Contains(t, PlaceMarker)
      ELSE \E t \in MedalTexts(hs_page) : e.name = WithoutPlace(t)

\* A medal entry whose text carries a placement annotation was recorded
\* under the name before the annotation.
C12_Witness ==
  /\ hs_result.kind = "ok"
  /\ \E t \in MedalTexts(hs_page) : Contains(t, PlaceMarker)
  /\ \E e \in Recorded : e.result = "Gold" /\ e.name = TxBo

----------------------------------------------------------------------------
(* Properties of the derived orders, checked under SpecOrd *)

\* The laws of a total order on the outcomes for three values.
TotalOrderLaws(r) ==
  /\ (r.ab = "Equal") = (ord_a = ord_b)
  /\ (r.ab = "Less") = (r.ba = "Greater")
  /\ (r.ab = "Greater") = (r.ba = "Less")
  /\ (r.ab # "Greater" /\ r.bc # "Greater") => r.ac # "Greater"
  /\ (r.ab = "Less" /\ r.bc # "Greater") => r.ac = "Less"

\* C16: MonthYear is totally ordered by (year, month), the months in the
\* order January < February < March < Open < November < December: for
\* different years the later year is greater whatever the months, for equal
\* years the order is that of the months.
C16_MonthYearOrder ==
  ord_result.kind = "MonthYear" =>
    /\ TotalOrderLaws(ord_result)
    /\ ord_a.year < ord_b.year => ord_result.ab = "Less"
    /\ ord_a.year > ord_b.year => ord_result.ab = "Greater"
    /\ ord_a.year = ord_b.year =>
         ord_result.ab = IntCmp(MonthRank(ord_a.month), MonthRank(ord_b.month))

\* An earlier December was compared with a later January, and an Open with a
\* November of the same year.
C16_Witness ==
  /\ ord_result.kind = "MonthYear"
  /\ ord_a.year < ord_b.year /\ ord_a.month = "December" /\ ord_b.month = "January"
  /\ ord_c.year = ord_b.year /\ ord_c.month = "November"
  /\ ord_result.ab = "Less" /\ ord_result.bc = "Less"

\* C17: Graduation is totally ordered, HighSchool{a} < HighSchool{b} exactly
\* when a < b, HighSchool{y} <= HighSchool{y}, and Observer is greater than
\* every HighSchool{y}.
C17_GraduationOrder ==
  ord_result.kind = "Graduation" =>
    /\ TotalOrderLaws(ord_result)
    /\ (ord_a.tag = "HighSchool" /\ ord_b.tag = "HighSchool") =>
         /\ (ord_result.ab = "Less") = (ord_a.year < ord_b.year)
         /\ (ord_a.year = ord_b.year) => ord_result.ab = "Equal"
    /\ (ord_a.tag = "Observer" /\ ord_b.tag = "HighSchool") => ord_result.ab = "Greater"
    /\ (ord_a.tag = "HighSchool" /\ ord_b.tag = "Observer") => ord_result.ab = "Less"

\* Observer was compared with a HighSchool, and two HighSchool of different
\* years with each other.
C17_Witness ==
  /\ ord_result.kind = "Graduation"
  /\ ord_a = Observer /\ ord_b = HighSchool(2025) /\ ord_c = HighSchool(2024)
  /\ ord_result.ab = "Greater" /\ ord_result.bc = "Greater"

----------------------------------------------------------------------------
(* Properties of the rows and tables of parse_contest_page, checked under  *)
(* SpecContest                                                             *)

\* What the page made of the header of table t and of its row r alone yields.
SingleRow(t, r) ==
  parse_contest_page(cp_result.value.time, cp_result.value.division,
                     << <<cp_page[t][1], cp_page[t][r]>> >>).value.participants

\* The tables whose header parses.
HeaderOk(t) == cp_page[t] # <<>> /\ ParseHeader(cp_page[t]).kind = "ok"

\* C19: a failure stays in its unit.  Each row adds its own participant or
\* nothing, whatever the rows around it do, and a table whose header fails
\* adds nothing, whatever its rows, while the tables after it are parsed: the
\* participants of the page are those its rows yield one by one under the
\* headers that parse.
C19_FailureConfined ==
  cp_result.kind = "ok" =>
    /\ \A t \in 1..Len(cp_page) :
         HeaderOk(t) => \A r \in 2..Len(cp_page[t]) : Len(SingleRow(t, r)) <= 1
    /\ Range(cp_result.value.participants) =
         UNION {UNION {Range(SingleRow(t, r)) : r \in 2..Len(cp_page[t])} :
                  t \in {t \in 1..Len(cp_page) : HeaderOk(t)}}

\* A table whose header fails came before a table in which a row that fails
\* came before a row that parses, and the page yielded that one participant.
C19_Witness ==
  /\ cp_result.kind = "ok"
  /\ Len(cp_page) = 2
  /\ cp_page[1] \in {<<HdrNoColspan>>, <<HdrBadColspan>>, <<>>}
  /\ Len(cp_page[2]) = 3
  /\ HeaderOk(2)
  /\ SingleRow(2, 2) = <<>>
  /\ Len(cp_result.value.participants) = 1

\* The number of cells the problem columns before column k take.
RECURSIVE CellsBefore(_, _)
CellsBefore(ws, k) == IF k = 1 THEN 0 ELSE CellsBefore(ws, k - 1) + 1 + ws[k - 1]

\* The testcase cells of problem column k, after its separator cell, without
\* the last one when it is empty.
KeptCells(cells, ws, k, fixed) ==
  LET from == fixed + CellsBefore(ws, k) + 2
      g == SubSeq(cells, from, from + ws[k] - 1)
  IN  IF g # <<>> /\ g[Len(g)] = <<>> THEN SubSeq(g, 1, Len(g) - 1) ELSE g

ResultOfCell(c) ==
  CASE c = <<"*">> -> "Correct" [] c = <<"x">> -> "WrongAnswer"
    [] c = <<"t">> -> "Timeout" [] c = <<"c">> -> "CompilationError"
    [] c = <<"s">> -> "RunTimeError" [] c = <<"!">> -> "RunTimeError"
    [] c = <<"e">> -> "Empty" [] OTHER -> "unrecognized"

AllEmpty(g) == \A i \in 1..Len(g) : g[i] = <<>>

\* What C20 says of row r of table t.
C20_Row(t, r) ==
  LET h == ParseHeader(cp_page[t])
      ws == h.col_widths
      fixed == IF h.observers THEN 3 ELSE 4
      td == cp_page[t][r].td
      cells == [i \in 1..Len(td) |-> normalize_text(td[i].text)]
      enough == Len(cells) >= fixed + CellsBefore(ws, Len(ws) + 1)
      kept(k) == KeptCells(cells, ws, k, fixed)
      bad(k) == ~AllEmpty(kept(k))
                /\ \E i \in 1..Len(kept(k)) : ResultOfCell(kept(k)[i]) = "unrecognized"
      ps == SingleRow(t, r)
      numbers == /\ Len(cells) >= fixed
                 /\ parse_uint(cells[fixed], U16Max) # None
                 /\ h.observers \/ parse_uint(cells[2], U16Max) # None
  IN  /\ (~enough \/ \E k \in 1..Len(ws) : bad(k)) => ps = <<>>
      /\ (enough /\ numbers /\ \A k \in 1..Len(ws) : ~bad(k)) => ps # <<>>
      /\ ps # <<>> =>
           /\ Len(ps[1].submission_results) = Len(ws)
           /\ \A k \in 1..Len(ws) :
                LET res == ps[1].submission_results[k]
                IN  IF AllEmpty(kept(k)) THEN res = None
                    ELSE /\ res = Some([i \in 1..Len(kept(k)) |-> ResultOfCell(kept(k)[i])])
                         /\ Len(Unwrap(res)) \in {ws[k], ws[k] - 1}

\* C20: for each problem column of width w a row gives one separator cell
\* and w testcase cells; the last is dropped if empty; if the rest are all
\* empty (also when w is 0) the submission is absent, otherwise each cell is
\* mapped by its character and any other text, an empty cell that is not the
\* last included, fails the row.  An accepted participant has one entry per
\* problem column, absent or of length w or w - 1.
C20_ProblemColumns ==
  cp_result.kind = "ok" =>
    \A t \in 1..Len(cp_page) :
      HeaderOk(t) => \A r \in 2..Len(cp_page[t]) : C20_Row(t, r)

\* A participant was accepted under a header with a column of width 1 and a
\* column of width 0, with a submission for the first and none for the second.
C20_Witness ==
  /\ cp_result.kind = "ok"
  /\ cp_page # <<>> /\ Len(cp_page[1]) >= 2 /\ cp_page[1][1] = HdrObs2
  /\ \E p \in Range(cp_result.value.participants) :
       p.submission_results = <<Some(<<"Correct">>), None>>

----------------------------------------------------------------------------
(* Specification of parse_camp_page: a finalists page is put together table *)
(* by table and row by row, then parsed.                                     *)

MaxCampTables == 3
MaxCampRows == 3

TxBoCamp == <<"B", "o">>
Tx2025 == <<"2", "0", "2", "5">>

CampHeader ==
  HdrRow(<<Th(YearText, None), Th(TxName, None), Th(TxHigh, None), Th(TxCA, None)>>)

\* Rows of four cells with a year, with a year that is no u16 or no number,
\* of three and of five cells, and the <tr><td></td></tr> of some pages.
CampRowsAlphabet ==
  { CampHeader,
    DataRow(<<Tx2024, TxAl, TxHigh, TxCA>>),
    DataRow(<<<<" ">> \o Tx2025, TxBoCamp, TxHigh, TxCA>>),
    DataRow(<<<<"7", "0", "0", "0", "0">>, TxAl, TxHigh, TxCA>>),
    DataRow(<<TxAl, Tx2024, TxHigh, TxCA>>),
    DataRow(<<Tx2024, TxAl, TxHigh>>),
    DataRow(<<Tx2024, TxAl, TxHigh, TxCA, TxCA>>),
    DataRow(<< <<>> >>) }

\* The rows of the page after the first row of their table.
CampRowsOnPage(page) ==
  LET n(t) == IF page[t] = <<>> THEN 0 ELSE Len(page[t]) - 1
      RECURSIVE sum(_)
      sum(t) == IF t = 0 THEN 0 ELSE n(t) + sum(t - 1)
  IN  sum(Len(page))

CaInit == CpOff /\ HsOff /\ PaOff /\ DbOff /\ OrdOff /\ BotOff

\* The page gets one more <table>: without any row, or with a first row that
\* is a header or a row of data.
CaAddTable ==
  /\ cp_result = CpIdle
  /\ Len(cp_page) < MaxCampTables
  /\ \E t \in {<<>>, <<CampHeader>>, <<DataRow(<<Tx2024, TxAl, TxHigh, TxCA>>)>>} :
       cp_page' = Append(cp_page, t)
  /\ UNCHANGED <<cp_result, hs_vars, pa_vars, db_vars, ord_vars, bot_vars>>

\* The last table of the page gets one more <tr>.
CaAddRow ==
  /\ cp_result = CpIdle
  /\ cp_page # <<>>
  /\ cp_page[Len(cp_page)] # <<>>
  /\ CampRowsOnPage(cp_page) < MaxCampRows
  /\ \E r \in CampRowsAlphabet :
       cp_page' = [cp_page EXCEPT ![Len(cp_page)] = Append(@, r)]
  /\ UNCHANGED <<cp_result, hs_vars, pa_vars, db_vars, ord_vars, bot_vars>>

CaParse ==
  /\ cp_result = CpIdle
  /\ cp_result' = [kind |-> "camp", value |-> parse_camp_page(2024, cp_page)]
  /\ UNCHANGED <<cp_page, hs_vars, pa_vars, db_vars, ord_vars, bot_vars>>

CaNext == CaAddTable \/ CaAddRow \/ CaParse

SpecCamp == CaInit /\ [][CaNext]_vars

----------------------------------------------------------------------------
(* Properties of parse_camp_page, checked under SpecCamp *)

\* The rows that count: in table 0 or 1 (tables numbered from 0), not the
\* first row of their table, of exactly four cells, the first a u16.
CampAccepted ==
  {pos \in (1..MaxCampTables + 1) \X (1..MaxCampRows + 2) :
     /\ pos[1] <= Len(cp_page) /\ pos[1] <= 2
     /\ pos[2] <= Len(cp_page[pos[1]]) /\ pos[2] >= 2
     /\ Len(cp_page[pos[1]][pos[2]].td) = 4
     /\ parse_uint(normalize_text(cp_page[pos[1]][pos[2]].td[1].text), U16Max) # None}

PosBefore(a, b) == a[1] < b[1] \/ (a[1] = b[1] /\ a[2] < b[2])

\* C21: parse_camp_page takes participants from the first two tables only,
\* table 0 with is_egoi false and table 1 with is_egoi true, skips the first
\* row of a table, and accepts exactly the rows of four cells with a numeric
\* graduation year, in document order.
C21_FirstTwoTables ==
  cp_result # CpIdle =>
    LET ps == cp_result.value.participants
    IN  /\ Len(ps) = Cardinality(CampAccepted)
        /\ \A pos \in CampAccepted :
             LET p == ps[Cardinality({q \in CampAccepted : PosBefore(q, pos)}) + 1]
                 row == cp_page[pos[1]][pos[2]].td
             IN  /\ p.is_egoi = (pos[1] = 2)
                 /\ p.graduation_year
                      = Unwrap(parse_uint(normalize_text(row[1].text), U16Max))
                 /\ p.name = normalize_text(row[2].text)
                 /\ p.school = normalize_text(row[3].text)
                 /\ p.state = normalize_text(row[4].text)

\* A page of three tables with a good row after the first row of each: the
\* first two give a participant, the third none.
C21_Witness ==
  /\ cp_result # CpIdle
  /\ Len(cp_page) = 3
  /\ \A t \in 1..3 : Len(cp_page[t]) = 2 /\ Len(cp_page[t][2].td) = 4
  /\ Len(cp_result.value.participants) = 2
  /\ ~cp_result.value.participants[1].is_egoi
  /\ cp_result.value.participants[2].is_egoi

----------------------------------------------------------------------------
(* Specification of parse_history_page on pages put together entry by     *)
(* entry: sections with a heading, year blocks that start with the        *)
(* element of the year, entries made of a node and the text after it.      *)

Elem(tag, t, src) == [kind |-> "element", tag |-> tag, text |-> t, src |-> src]
Comment == [kind |-> "comment", text |-> <<>>, src |-> None]

MaxEntrySections == 2
MaxEntryYears == 2
MaxEntries == 3

EntryHeadings == {Some(TxIOI), Some(TxEGOI), Some(TxEGOI \o <<" ">> \o TxIOI), Some(TxAl)}

YearElements == {Elem("b", Tx2017, None), Elem("b", Tx2016, None)}

\* What is put before the text of an entry: an <img> of each medal, of an
\* unknown medal and without src, an element that is no <img> with the src
\* of a medal, a comment, or nothing.
EntryNodes ==
  { <<Elem("img", <<>>, Some("current/images/medal_gold.png")), Tx(TxAl)>>,
    <<Elem("img", <<>>, Some("current/images/medal_silver.png")), Tx(TxBo)>>,
    <<Elem("img", <<>>, Some("current/images/medal_bronze.png")), Tx(TxAl)>>,
    <<Elem("img", <<>>, Some("current/images/medal_none.png")), Tx(TxBo)>>,
    <<Elem("img", <<>>, Some("current/images/medal_other.png")), Tx(TxAl)>>,
    <<Elem("img", <<>>, None), Tx(TxBo)>>,
    <<Elem("input", <<>>, Some("current/images/medal_gold.png")), Tx(TxBo)>>,
    <<Comment, Tx(TxAl)>>,
    <<Tx(TxAl)>> }

\* The text nodes of the page, two to a node that is put before the text.
EntriesOn(page) ==
  LET nodes == UNION {UNION {{<<s, y, k>> : k \in 1..Len(page[s].years[y])} :
                               y \in 1..Len(page[s].years)} : s \in 1..Len(page)}
  IN  Cardinality({n \in nodes : page[n[1]].years[n[2]][n[3]].kind = "text"})

HeInit == CpOff /\ HsOff /\ PaOff /\ DbOff /\ OrdOff /\ BotOff

HeAddSection ==
  /\ hs_result = HsIdle
  /\ Len(hs_page) < MaxEntrySections
  /\ \E h \in EntryHeadings :
       hs_page' = Append(hs_page, [heading |-> h, years |-> <<>>])
  /\ UNCHANGED <<hs_result, cp_vars, pa_vars, db_vars, ord_vars, bot_vars>>

HeAddYear ==
  /\ hs_result = HsIdle
  /\ hs_page # <<>>
  /\ YearDivsOn(hs_page) < MaxEntryYears
  /\ \E e \in YearElements :
       hs_page' = [hs_page EXCEPT ![Len(hs_page)].years = Append(@, <<e>>)]
  /\ UNCHANGED <<hs_result, cp_vars, pa_vars, db_vars, ord_vars, bot_vars>>

\* The last year block gets one more entry; the HTML parser never leaves two
\* text nodes next to each other.
HeAddEntry ==
  /\ hs_result = HsIdle
  /\ hs_page # <<>>
  /\ hs_page[Len(hs_page)].years # <<>>
  /\ EntriesOn(hs_page) < MaxEntries
  /\ LET s == Len(hs_page)
         y == Len(hs_page[s].years)
         div == hs_page[s].years[y]
     IN  \E e \in EntryNodes :
           /\ ~(e[1].kind = "text" /\ div[Len(div)].kind = "text")
           /\ hs_page' = [hs_page EXCEPT ![s].years[y] = @ \o e]
  /\ UNCHANGED <<hs_result, cp_vars, pa_vars, db_vars, ord_vars, bot_vars>>

HeParse ==
  /\ hs_result = HsIdle
  /\ hs_result' = parse_history_page(hs_page)
  /\ UNCHANGED <<hs_page, cp_vars, pa_vars, db_vars, ord_vars, bot_vars>>

HeNext == HeAddSection \/ HeAddYear \/ HeAddEntry \/ HeParse

SpecHistoryEntries == HeInit /\ [][HeNext]_vars

----------------------------------------------------------------------------
(* Properties of parse_history_page, checked under SpecHistoryEntries *)

IsIoiHeading(h) == Contains(Unwrap(h), TxIOI) /\ ~Contains(Unwrap(h), TxEGOI)
IsEgoiHeading(h) == Contains(Unwrap(h), TxEGOI) /\ ~Contains(Unwrap(h), TxIOI)

IoiSections == {s \in 1..Len(hs_page) : IsIoiHeading(hs_page[s].heading)}
EgoiSections == {s \in 1..Len(hs_page) : IsEgoiHeading(hs_page[s].heading)}

Last(S) == CHOOSE x \in S : \A y \in S : y <= x

\* The sections whose entries are returned: the last of each competition.
ReturnedSections ==
  (IF IoiSections = {} THEN {} ELSE {Last(IoiSections)})
  \cup (IF EgoiSections = {} THEN {} ELSE {Last(EgoiSections)})

\* The text nodes of the returned sections, by section, year block and node.
TextPositions ==
  {n \in ReturnedSections \X (1..MaxEntryYears + 1) \X (2..2 * MaxEntries + 3) :
     /\ n[2] <= Len(hs_page[n[1]].years)
     /\ n[3] <= Len(hs_page[n[1]].years[n[2]])
     /\ hs_page[n[1]].years[n[2]][n[3]].kind = "text"}

PrevSibling(n) == hs_page[n[1]].years[n[2]][n[3] - 1]

KnownMedals ==
  { <<"current/images/medal_none.png", "NoMedal">>,
    <<"current/images/medal_bronze.png", "Bronze">>,
    <<"current/images/medal_silver.png", "Silver">>,
    <<"current/images/medal_gold.png", "Gold">> }

\* The entry recorded for the text node n when the node before it shows the
\* medal m.
EntryOf(n, m) ==
  [year |-> IF hs_page[n[1]].years[n[2]][1].text = Tx2017 THEN 2017 ELSE 2016,
   result |-> m,
   name |-> hs_page[n[1]].years[n[2]][n[3]].text]

AfterImageOf(n, m) ==
  /\ PrevSibling(n).kind = "element"
  /\ PrevSibling(n).tag = "img"
  /\ PrevSibling(n).src # None
  /\ <<Unwrap(PrevSibling(n).src), m>> \in KnownMedals

\* C22: an entry is recorded only if the node right before it is an image
\* element whose src is one of the four known paths, with the medal of that
\* path; every other entry is skipped, and the entries after a skipped one
\* are recorded all the same.
C22_RecordedOnlyAfterImage ==
  hs_result.kind = "ok" =>
    /\ \A e \in Recorded :
         \E n \in TextPositions : AfterImageOf(n, e.result) /\ e = EntryOf(n, e.result)
    /\ \A n \in TextPositions :
         \A m \in {k[2] : k \in KnownMedals} :
           AfterImageOf(n, m) => EntryOf(n, m) \in Recorded

\* The entries of the last section of a competition, in document order.
EntriesOfLast(S) ==
  IF S = {} THEN <<>> ELSE ParseYearDivs(hs_page[Last(S)].years).results

SameEntries(list, entries) ==
  /\ Len(list) = Len(entries)
  /\ \A e \in Range(entries) : Occurrences(list, e) = Occurrences(entries, e)

\* C23: the list of a competition holds the entries of exactly one section,
\* the last whose heading names that competition alone, also when that
\* section has no entry; sections naming both competitions or neither
\* contribute nothing.
C23_LastSectionOnly ==
  hs_result.kind = "ok" =>
    /\ SameEntries(hs_result.value.ioi, EntriesOfLast(IoiSections))
    /\ SameEntries(hs_result.value.egoi, EntriesOfLast(EgoiSections))

\* Two sections of the same competition, each with entries of its own: the
\* list returned is that of the second.
C23_Witness ==
  /\ hs_result.kind = "ok"
  /\ Len(hs_page) = 2
  /\ hs_page[1].heading = hs_page[2].heading
  /\ Cardinality(IoiSections \cup EgoiSections) = 2
  /\ ParseYearDivs(hs_page[1].years).results # <<>>
  /\ ParseYearDivs(hs_page[2].years).results # <<>>
  /\ Range(ParseYearDivs(hs_page[1].years).results)
       \cap Range(ParseYearDivs(hs_page[2].years).results) = {}
  /\ Len(hs_result.value.ioi) + Len(hs_result.value.egoi)
       = Len(ParseYearDivs(hs_page[2].years).results)

OfYear(list, y) ==
  LET keep(e) == e.year = y
  IN  SelectSeq(list, keep)

StablySorted(list, entries) ==
  /\ \A i, j \in 1..Len(list) : i < j => list[i].year <= list[j].year
  /\ \A y \in {2016, 2017} : OfYear(list, y) = OfYear(entries, y)

\* C24: each list returned is in non-decreasing order of year, and the
\* entries of one year are in the order of the document.
C24_StableByYear ==
  hs_result.kind = "ok" =>
    /\ StablySorted(hs_result.value.ioi, EntriesOfLast(IoiSections))
    /\ StablySorted(hs_result.value.egoi, EntriesOfLast(EgoiSections))

\* A section that lists two different entries of 2017 and then an entry of
\* 2016: the entry of 2016 was moved to the front, the two of 2017 kept
\* their order.
C24_Witness ==
  /\ hs_result.kind = "ok"
  /\ \E S \in {IoiSections, EgoiSections} :
       LET entries == EntriesOfLast(S)
       IN  /\ Len(entries) = 3
           /\ entries[1].year = 2017 /\ entries[2].year = 2017
           /\ entries[1] # entries[2]
           /\ entries[3].year = 2016
           /\ \E list \in {hs_result.value.ioi, hs_result.value.egoi} :
                list = <<entries[3], entries[1], entries[2]>>

----------------------------------------------------------------------------
(* Properties of the order and the names of a UsacoDb, under SpecDb *)

\* The place of a row in the scan of the data: contests first, in order,
\* then camps, the rows of each in order.
ScanPlaces(id) ==
  {r[1] * (MaxDbRecords + 2) + r[2] : r \in {q \in ContestRows : ContestRowId(q) = id}}
  \cup {(2 + r[1]) * (MaxDbRecords + 2) + r[2] : r \in {q \in CampRows : CampRowId(q) = id}}

FirstOccurrence(id) == CHOOSE n \in ScanPlaces(id) : \A m \in ScanPlaces(id) : n <= m

\* C25: the participants of the UsacoDb are in the order in which their ids
\* first occur in the data, contests scanned before camps.
C25_FirstOccurrenceOrder ==
  db # DbIdle =>
    \A i, j \in 1..Len(db.value.participants) :
      i < j => FirstOccurrence(db.value.participants[i].id)
                 < FirstOccurrence(db.value.participants[j].id)

\* The first parenthesized group of the name that is followed by a space:
\* "(", characters other than parentheses, ")" and the space.
FirstGroup(name) ==
  LET groups == {g \in (1..Len(name)) \X (1..Len(name)) :
                   /\ g[1] + 1 < g[2] /\ g[2] < Len(name)
                   /\ name[g[1]] = "(" /\ name[g[2]] = ")" /\ name[g[2] + 1] = " "
                   /\ \A k \in (g[1] + 1)..(g[2] - 1) : name[k] \notin {"(", ")"}}
  IN  IF groups = {} THEN <<>>
      ELSE <<CHOOSE g \in groups : \A h \in groups : g[1] <= h[1]>>

\* The name with its groups removed and every other character kept.
RECURSIVE WithoutGroups(_)
WithoutGroups(name) ==
  IF FirstGroup(name) = <<>> THEN name
  ELSE LET g == FirstGroup(name)[1]
       IN  SubSeq(name, 1, g[1] - 1)
           \o WithoutGroups(SubSeq(name, g[2] + 2, Len(name)))

CleanedUp(stored, scraped) ==
  /\ Len(stored) = Len(scraped)
  /\ \A i \in 1..Len(scraped) :
       /\ stored[i].name = WithoutGroups(scraped[i].name)
       /\ stored[i].year = scraped[i].year
       /\ stored[i].result = scraped[i].result

\* C26: after consolidation every IOI and EGOI entry has its name with each
\* parenthesized group "(...) " removed and every character outside the
\* groups kept, and is otherwise as scraped.
C26_PreferredNamesRemoved ==
  db # DbIdle =>
    /\ CleanedUp(db.value.intl_history.ioi, db_data.intl_history.ioi)
    /\ CleanedUp(db.value.intl_history.egoi, db_data.intl_history.egoi)

\* C27: a camp participant scraped with a preferred name in parentheses is
\* consolidated under the name without it (country USA, its graduation
\* year), and query_name returns that participant, camp record included,
\* for the name without the group.
C27_CampPreferredNamesIgnored ==
  /\ db # DbIdle =>
       \A r \in CampRows :
         \E i \in 1..Len(db.value.participants) :
           /\ db.value.participants[i].id
                = [CampRowId(r) EXCEPT !.name = WithoutGroups(@)]
           /\ CampRowRecord(r) \in Range(db.value.participants[i].camps)
  /\ q_result # DbIdle =>
       \A r \in CampRows :
         Folded(WithoutGroups(CampRowId(r).name)) = Folded(q_name) =>
           \E i \in 1..Len(q_result.value.participants) :
             CampRowRecord(r) \in Range(q_result.value.participants[i].camps)

----------------------------------------------------------------------------
(* Specification of the update command: it sends the progress message,     *)
(* spawns the scrape task with the sender of a oneshot channel, and polls  *)
(* the receiver once a second, editing the message in between.  The task   *)
(* runs parse_all with a client that counts its requests in the Progress.  *)

MaxRequests == 3

Progress(parsed, total) == [parsed |-> parsed, total |-> total]
Message(progress, finished) ==
  [parsed |-> progress.parsed, total |-> progress.total, finished |-> finished]

UpReturned == up_pc \in {"returned_ok", "returned_err"}
TaskEnded == up_task \in {"sent", "panicked"}

UpInit ==
  /\ up_pc = "start"
  /\ up_task = "none"
  /\ up_rx = "none"
  /\ up_progress = Progress(0, 0)
  /\ up_shown = DbIdle
  /\ LkOff /\ CpOff /\ HsOff /\ PaOff /\ DbOff /\ OrdOff

\* ctx.send(..).await?, oneshot::channel(), tokio::spawn(..), interval(..)
UpStart ==
  /\ up_pc = "start"
  /\ \/ /\ up_pc' = "loop"
        /\ up_shown' = Message(up_progress, FALSE)
        /\ up_task' = "running"
        /\ up_rx' = "empty"
     \/ /\ up_pc' = "returned_err"
        /\ UNCHANGED <<up_shown, up_task, up_rx>>
  /\ UNCHANGED <<up_progress, lk_vars, cp_vars, hs_vars, pa_vars, db_vars, ord_vars>>

\* HttpClient::get, up to the request: progress.lock().await.total += 1
TaskRequest ==
  /\ up_task = "running"
  /\ up_progress.total < MaxRequests
  /\ up_progress' = [up_progress EXCEPT !.total = @ + 1]
  /\ UNCHANGED <<up_pc, up_task, up_rx, up_shown, lk_vars, cp_vars, hs_vars, pa_vars,
                 db_vars, ord_vars>>

\* HttpClient::get, after the response: progress.lock().await.parsed += 1
TaskResponse ==
  /\ up_task = "running"
  /\ up_progress.parsed < up_progress.total
  /\ up_progress' = [up_progress EXCEPT !.parsed = @ + 1]
  /\ UNCHANGED <<up_pc, up_task, up_rx, up_shown, lk_vars, cp_vars, hs_vars, pa_vars,
                 db_vars, ord_vars>>

\* The end of the task: tx.send(parse_all(..).await).expect(..).  parse_all
\* returns Ok or Err, and the value is sent unless the receiver is gone, or
\* it panics, as a parser it runs does, and the sender is dropped.
TaskSend ==
  /\ up_task = "running"
  /\ \E res \in {"ok", "err", "panic"} :
       IF res = "panic"
       THEN up_task' = "panicked" /\ up_rx' = (IF UpReturned THEN up_rx ELSE "closed")
       ELSE IF UpReturned
       THEN up_task' = "panicked" /\ up_rx' = up_rx
       ELSE up_task' = "sent" /\ up_rx' = res
  /\ UNCHANGED <<up_pc, up_progress, up_shown, lk_vars, cp_vars, hs_vars, pa_vars,
                 db_vars, ord_vars>>

\* if let Ok(res) = rx.try_recv() { break res?; }
UpPoll ==
  /\ up_pc = "loop"
  /\ up_pc' = CASE up_rx = "ok" -> "finish"
                [] up_rx = "err" -> "returned_err"
                [] OTHER -> "tick"
  /\ up_rx' = IF up_rx \in {"ok", "err"} THEN "taken" ELSE up_rx
  /\ UNCHANGED <<up_task, up_progress, up_shown, lk_vars, cp_vars, hs_vars, pa_vars,
                 db_vars, ord_vars>>

\* interval.tick().await; msg.edit(..).await?
UpTick ==
  /\ up_pc = "tick"
  /\ \/ up_pc' = "loop" /\ up_shown' = Message(up_progress, FALSE)
     \/ up_pc' = "returned_err" /\ up_shown' = up_shown
  /\ UNCHANGED <<up_task, up_rx, up_progress, lk_vars, cp_vars, hs_vars, pa_vars,
                 db_vars, ord_vars>>

\* After the loop: the last edit, the new db, the closing message.
UpFinish ==
  /\ up_pc = "finish"
  /\ \/ up_pc' = "returned_ok" /\ up_shown' = Message(up_progress, TRUE)
     \/ up_pc' = "returned_err" /\ up_shown' \in {up_shown, Message(up_progress, TRUE)}
  /\ UNCHANGED <<up_task, up_rx, up_progress, lk_vars, cp_vars, hs_vars, pa_vars,
                 db_vars, ord_vars>>

UpNext == UpStart \/ TaskRequest \/ TaskResponse \/ TaskSend \/ UpPoll \/ UpTick \/ UpFinish

\* The runtime runs the command and the task as long as they can go on.
SpecUpdate ==
  /\ UpInit
  /\ [][UpNext]_vars
  /\ WF_vars(UpPoll) /\ WF_vars(UpTick) /\ WF_vars(UpFinish)
  /\ WF_vars(TaskRequest) /\ WF_vars(TaskResponse) /\ WF_vars(TaskSend)

----------------------------------------------------------------------------
(* Properties of the update command, checked under SpecUpdate *)

\* C28: once the scrape task has ended, with a result sent or without, the
\* update command leaves its loop and returns.
C28_LeavesLoopWhenTaskEnds == TaskEnded ~> UpReturned

----------------------------------------------------------------------------
(* Specification of the commands and the task that lock the db and stats   *)
(* mutexes.  A tokio Mutex hands the lock to its waiters in the order they *)
(* asked: a mutex is the sequence of its holder and the waiters behind it. *)

Searches == {"search1", "search2"}
LockUsers == Searches \cup {"botinfo", "update", "save"}

Holds(mutex, p) == mutex # <<>> /\ mutex[1] = p
Waits(mutex, p) == p \in Range(mutex) /\ mutex[1] # p

LkInit ==
  /\ lk_pc = [p \in LockUsers |-> IF p = "save" THEN "tick" ELSE "idle"]
  /\ lk_db = <<>>
  /\ lk_stats = <<>>
  /\ UpOff /\ CpOff /\ HsOff /\ PaOff /\ DbOff /\ OrdOff

\* search: a new query asks for stats, an edited message goes on to the db.
SearchStart(self) ==
  /\ lk_pc[self] = "idle"
  /\ \/ /\ lk_stats' = Append(lk_stats, self)
        /\ lk_pc' = [lk_pc EXCEPT ![self] = "stats_wait"]
     \/ /\ lk_stats' = lk_stats
        /\ lk_pc' = [lk_pc EXCEPT ![self] = "db_req"]
  /\ UNCHANGED <<lk_db, up_vars, cp_vars, hs_vars, pa_vars, db_vars, ord_vars>>

\* SearchCount keeping the stats guard after the block.
SearchCountKeepingGuard(self) ==
  /\ lk_pc[self] = "stats_wait"
  /\ Holds(lk_stats, self)
  /\ lk_pc' = [lk_pc EXCEPT ![self] = "db_req"]
  /\ UNCHANGED <<lk_stats, lk_db, up_vars, cp_vars, hs_vars, pa_vars, db_vars, ord_vars>>

\* search: with the stats guard, count the query; the guard goes at the end
\* of the block.
SearchCount(self) ==
  /\ lk_pc[self] = "stats_wait"
  /\ Holds(lk_stats, self)
  /\ lk_stats' = Tail(lk_stats)
  /\ lk_pc' = [lk_pc EXCEPT ![self] = "db_req"]
  /\ UNCHANGED <<lk_db, up_vars, cp_vars, hs_vars, pa_vars, db_vars, ord_vars>>

\* search: ctx.data().db.lock().await
SearchLockDb(self) ==
  /\ lk_pc[self] = "db_req"
  /\ lk_db' = Append(lk_db, self)
  /\ lk_pc' = [lk_pc EXCEPT ![self] = "db_wait"]
  /\ UNCHANGED <<lk_stats, up_vars, cp_vars, hs_vars, pa_vars, db_vars, ord_vars>>

\* search: .query_name(&name); the guard goes at the end of the statement.
SearchQuery(self) ==
  /\ lk_pc[self] = "db_wait"
  /\ Holds(lk_db, self)
  /\ lk_db' = Tail(lk_db)
  /\ lk_pc' = [lk_pc EXCEPT ![self] = "reply"]
  /\ UNCHANGED <<lk_stats, up_vars, cp_vars, hs_vars, pa_vars, db_vars, ord_vars>>

\* search: the reply is sent with no guard held.
SearchReply(self) ==
  /\ lk_pc[self] = "reply"
  /\ lk_pc' = [lk_pc EXCEPT ![self] = "idle"]
  /\ UNCHANGED <<lk_db, lk_stats, up_vars, cp_vars, hs_vars, pa_vars, db_vars, ord_vars>>

\* botinfo: let db = data.db.lock().await
BotinfoLockDb ==
  /\ lk_pc["botinfo"] = "idle"
  /\ lk_db' = Append(lk_db, "botinfo")
  /\ lk_pc' = [lk_pc EXCEPT !["botinfo"] = "db_wait"]
  /\ UNCHANGED <<lk_stats, up_vars, cp_vars, hs_vars, pa_vars, db_vars, ord_vars>>

\* botinfo: let stats = data.stats.lock().await, with the db guard
BotinfoLockStats ==
  /\ lk_pc["botinfo"] = "db_wait"
  /\ Holds(lk_db, "botinfo")
  /\ lk_stats' = Append(lk_stats, "botinfo")
  /\ lk_pc' = [lk_pc EXCEPT !["botinfo"] = "stats_wait"]
  /\ UNCHANGED <<lk_db, up_vars, cp_vars, hs_vars, pa_vars, db_vars, ord_vars>>

\* botinfo: the embed is built with both guards; drop(db); drop(stats)
BotinfoEmbed ==
  /\ lk_pc["botinfo"] = "stats_wait"
  /\ Holds(lk_stats, "botinfo")
  /\ lk_db' = Tail(lk_db)
  /\ lk_stats' = Tail(lk_stats)
  /\ lk_pc' = [lk_pc EXCEPT !["botinfo"] = "send"]
  /\ UNCHANGED <<up_vars, cp_vars, hs_vars, pa_vars, db_vars, ord_vars>>

\* botinfo: ctx.send(..).await
BotinfoSend ==
  /\ lk_pc["botinfo"] = "send"
  /\ lk_pc' = [lk_pc EXCEPT !["botinfo"] = "idle"]
  /\ UNCHANGED <<lk_db, lk_stats, up_vars, cp_vars, hs_vars, pa_vars, db_vars, ord_vars>>

\* update, after its loop: ctx.data().db.lock().await
UpdateLockDb ==
  /\ lk_pc["update"] = "idle"
  /\ lk_db' = Append(lk_db, "update")
  /\ lk_pc' = [lk_pc EXCEPT !["update"] = "db_wait"]
  /\ UNCHANGED <<lk_stats, up_vars, cp_vars, hs_vars, pa_vars, db_vars, ord_vars>>

\* update: *guard = data.into(); the guard goes at the end of the statement.
UpdateAssign ==
  /\ lk_pc["update"] = "db_wait"
  /\ Holds(lk_db, "update")
  /\ lk_db' = Tail(lk_db)
  /\ lk_pc' = [lk_pc EXCEPT !["update"] = "say"]
  /\ UNCHANGED <<lk_stats, up_vars, cp_vars, hs_vars, pa_vars, db_vars, ord_vars>>

\* update: ctx.say(..).await
UpdateSay ==
  /\ lk_pc["update"] = "say"
  /\ lk_pc' = [lk_pc EXCEPT !["update"] = "idle"]
  /\ UNCHANGED <<lk_db, lk_stats, up_vars, cp_vars, hs_vars, pa_vars, db_vars, ord_vars>>

\* save task: interval.tick().await, then db.lock().await
SaveLockDb ==
  /\ lk_pc["save"] = "tick"
  /\ lk_db' = Append(lk_db, "save")
  /\ lk_pc' = [lk_pc EXCEPT !["save"] = "db_wait"]
  /\ UNCHANGED <<lk_stats, up_vars, cp_vars, hs_vars, pa_vars, db_vars, ord_vars>>

\* save task: filestore.save_db(&*guard) is started with the db guard
SaveDb ==
  /\ lk_pc["save"] = "db_wait"
  /\ Holds(lk_db, "save")
  /\ lk_pc' = [lk_pc EXCEPT !["save"] = "saving_db"]
  /\ UNCHANGED <<lk_db, lk_stats, up_vars, cp_vars, hs_vars, pa_vars, db_vars, ord_vars>>

\* save task: save_db returns, Ok or Err; the db guard goes at the end of
\* the if let; then stats.lock().await
SaveDbDone ==
  /\ lk_pc["save"] = "saving_db"
  /\ lk_db' = Tail(lk_db)
  /\ lk_stats' = Append(lk_stats, "save")
  /\ lk_pc' = [lk_pc EXCEPT !["save"] = "stats_wait"]
  /\ UNCHANGED <<up_vars, cp_vars, hs_vars, pa_vars, db_vars, ord_vars>>

\* save task: filestore.save_stats(&*guard) is started with the stats guard
SaveStats ==
  /\ lk_pc["save"] = "stats_wait"
  /\ Holds(lk_stats, "save")
  /\ lk_pc' = [lk_pc EXCEPT !["save"] = "saving_stats"]
  /\ UNCHANGED <<lk_db, lk_stats, up_vars, cp_vars, hs_vars, pa_vars, db_vars, ord_vars>>

\* save task: save_stats returns; the guard goes; back to the tick
SaveStatsDone ==
  /\ lk_pc["save"] = "saving_stats"
  /\ lk_stats' = Tail(lk_stats)
  /\ lk_pc' = [lk_pc EXCEPT !["save"] = "tick"]
  /\ UNCHANGED <<lk_db, up_vars, cp_vars, hs_vars, pa_vars, db_vars, ord_vars>>

Search(self) ==
  \/ SearchStart(self) \/ SearchCount(self) \/ SearchLockDb(self)
  \/ SearchQuery(self) \/ SearchReply(self)
Botinfo == BotinfoLockDb \/ BotinfoLockStats \/ BotinfoEmbed \/ BotinfoSend
Update == UpdateLockDb \/ UpdateAssign \/ UpdateSay
Save == SaveLockDb \/ SaveDb \/ SaveDbDone \/ SaveStats \/ SaveStatsDone

LkNext == (\E self \in Searches : Search(self)) \/ Botinfo \/ Update \/ Save

\* The runtime polls every task that can go on, and the calls to the file
\* system and to Discord return; when a command is invoked is left open.
LkFairness ==
  /\ \A self \in Searches :
       /\ WF_vars(SearchCount(self)) /\ WF_vars(SearchLockDb(self))
       /\ WF_vars(SearchQuery(self)) /\ WF_vars(SearchReply(self))
  /\ WF_vars(BotinfoLockStats) /\ WF_vars(BotinfoEmbed) /\ WF_vars(BotinfoSend)
  /\ WF_vars(UpdateAssign) /\ WF_vars(UpdateSay)
  /\ WF_vars(SaveDb) /\ WF_vars(SaveDbDone) /\ WF_vars(SaveStats)
  /\ WF_vars(SaveStatsDone)

SpecLocks == LkInit /\ [][LkNext]_vars /\ LkFairness

----------------------------------------------------------------------------
(* Properties of the mutexes, checked under SpecLocks *)

\* C29: whoever holds stats and has asked for db holds db too, db is never
\* asked for by a holder or waiter of stats, so the two mutexes are taken in
\* the order db, stats; and whoever waits for a mutex gets it.
C29_NoDeadlock ==
  /\ [](\A p \in LockUsers : Holds(lk_stats, p) => ~Waits(lk_db, p))
  /\ [][\A p \in LockUsers :
          (p \in Range(lk_db') /\ p \notin Range(lk_db)) => p \notin Range(lk_stats)]_vars
  /\ \A p \in LockUsers : Waits(lk_db, p) ~> Holds(lk_db, p)
  /\ \A p \in LockUsers : Waits(lk_stats, p) ~> Holds(lk_stats, p)

\* botinfo holds both mutexes while a search waits for stats and the save
\* task and the update command wait for db.
C29_Witness ==
  /\ Holds(lk_db, "botinfo") /\ Holds(lk_stats, "botinfo")
  /\ \E self \in Searches : Waits(lk_stats, self)
  /\ Waits(lk_db, "save") /\ Waits(lk_db, "update")

====
